---- MODULE Spec2Model ----
(***************************************************************************)
(* The IBTAC lexical analyzer: src/src/token_types.py (token model),       *)
(* src/src/error_handler.py (error log) and src/src/lexer.py (scanner).    *)
(*                                                                         *)
(* A character is a one-character string; the source text and every        *)
(* lexeme are sequences of characters.  The NUL character chr(0) is        *)
(* written NUL.  A diagnostic message is the sequence of its fixed text    *)
(* pieces and of the characters of the lexeme formatted into it.           *)
(***************************************************************************)
EXTENDS Integers, Sequences, FiniteSets, TLC

(***************************************************************************)
(* Characters                                                              *)
(***************************************************************************)
NUL == "NUL"

\* the characters with no printable form are written by their code point
\* ("U+000B" is chr(0x0B)); every other character is written as itself
ArabicIndicThree == "U+0663"

KelvinSign == "U+212A"

\* the characters c.lower() maps to LowerLetters at the same index
UpperLetters ==
  <<"A", "B", "C", "D", "E", "F", "G", "H", "I", "J", "K", "L", "M",
    "N", "O", "P", "Q", "R", "S", "T", "U", "V", "W", "X", "Y", "Z",
    "À", "Á", "Â", "Ã", "Ä", "Å", "Æ", "Ç", "È", "É", "Ê", "Ë", "Ì",
    "Í", "Î", "Ï", "Ð", "Ñ", "Ò", "Ó", "Ô", "Õ", "Ö", "Ø", "Ù", "Ú",
    "Û", "Ü", "Ý", "Þ",
    KelvinSign>>

LowerLetters ==
  <<"a", "b", "c", "d", "e", "f", "g", "h", "i", "j", "k", "l", "m",
    "n", "o", "p", "q", "r", "s", "t", "u", "v", "w", "x", "y", "z",
    "à", "á", "â", "ã", "ä", "å", "æ", "ç", "è", "é", "ê", "ë", "ì",
    "í", "î", "ï", "ð", "ñ", "ò", "ó", "ô", "õ", "ö", "ø", "ù", "ú",
    "û", "ü", "ý", "þ",
    "k">>

\* the letters that have no upper-case form among the characters below
UncasedLetters == {"ª", "µ", "º", "ß", "ÿ"}

Range(f) == {f[i] : i \in DOMAIN f}

AsciiDigits == {"0","1","2","3","4","5","6","7","8","9"}

\* the digits int() and float() convert: str.isdecimal
DecimalDigits == AsciiDigits \cup {ArabicIndicThree}

\* str.isdigit
Digits == DecimalDigits \cup {"²", "³", "¹"}

\* str.isalpha
Letters == Range(LowerLetters) \cup Range(UpperLetters) \cup UncasedLetters

\* the characters of str.isalnum that are neither letters nor digits
Fractions == {"¼", "½", "¾"}

\* the whitespace int() and float() strip from both ends of their text
Blanks == {"\t", "\n", "U+000B", "\f", "\r", " ", "U+0085", "U+00A0"}

\* every other character of code point 1 to 255
Symbols ==
  {"U+0001", "U+0002", "U+0003", "U+0004", "U+0005", "U+0006", "U+0007", "U+0008", "\t", "\n", "U+000B", "\f",
   "\r", "U+000E", "U+000F", "U+0010", "U+0011", "U+0012", "U+0013", "U+0014", "U+0015", "U+0016", "U+0017", "U+0018",
   "U+0019", "U+001A", "U+001B", "U+001C", "U+001D", "U+001E", "U+001F", " ", "!", "\"", "#", "$",
   "%", "&", "'", "(", ")", "*", "+", ",", "-", ".", "/", ":",
   ";", "<", "=", ">", "?", "@", "[", "\\", "]", "^", "_", "U+0060",
   "{", "|", "}", "~", "U+007F", "U+0080", "U+0081", "U+0082", "U+0083", "U+0084", "U+0085", "U+0086",
   "U+0087", "U+0088", "U+0089", "U+008A", "U+008B", "U+008C", "U+008D", "U+008E", "U+008F", "U+0090", "U+0091", "U+0092",
   "U+0093", "U+0094", "U+0095", "U+0096", "U+0097", "U+0098", "U+0099", "U+009A", "U+009B", "U+009C", "U+009D", "U+009E",
   "U+009F", "U+00A0", "¡", "¢", "£", "¤", "¥", "¦", "§", "¨", "©", "«",
   "¬", "U+00AD", "®", "¯", "°", "±", "´", "¶", "·", "¸", "»", "¿",
   "×", "÷"}

\* every character a source text of the model can hold: the code points 0
\* to 255 and two characters from beyond them
Chars == Digits \cup Letters \cup Fractions \cup Symbols \cup {NUL}

\* str.lower() of one character
LowerChar(c) ==
  IF \E i \in DOMAIN UpperLetters : UpperLetters[i] = c
  THEN LowerLetters[CHOOSE i \in DOMAIN UpperLetters : UpperLetters[i] = c]
  ELSE c

\* str.lower() of a text
Lower(w) == [i \in DOMAIN w |-> LowerChar(w[i])]

(***************************************************************************)
(* Token model: src/src/token_types.py                                     *)
(***************************************************************************)
\* the members of TokenType
TokenTypes ==
  {"IDENTIFIER", "INTEGER", "FLOAT", "STRING",
   "IF", "ELSE", "WHILE", "RETURN", "FUNC",
   "PLUS", "MINUS", "MULTIPLY", "DIVIDE", "EQUAL", "NOT_EQUAL",
   "LESS_THAN", "GREATER_THAN", "LESS_EQUAL", "GREATER_EQUAL",
   "LPAREN", "RPAREN", "LBRACE", "RBRACE", "SEMICOLON", "COMMA",
   "COMMENT", "WHITESPACE", "NEWLINE", "EOF",
   "ERROR", "UNTERMINATED_STRING", "INVALID_NUMBER", "INVALID_SYMBOL"}

ErrorTypes == {"ERROR", "UNTERMINATED_STRING", "INVALID_NUMBER", "INVALID_SYMBOL"}

\* Optional[str] = None of Token.error_msg: no diagnostic
NoMsg == <<>>

Token(type, value, line, column, error_msg) ==
  [type |-> type, value |-> value, line |-> line, column |-> column,
   error_msg |-> error_msg]

\* Token.is_error
IsError(t) == t.type \in ErrorTypes

KeywordWords ==
  { <<"i","f">>, <<"e","l","s","e">>, <<"w","h","i","l","e">>,
    <<"r","e","t","u","r","n">>, <<"f","u","n","c">> }

\* KEYWORDS[w], for w in KeywordWords
KEYWORDS(w) ==
  CASE w = <<"i","f">> -> "IF"
    [] w = <<"e","l","s","e">> -> "ELSE"
    [] w = <<"w","h","i","l","e">> -> "WHILE"
    [] w = <<"r","e","t","u","r","n">> -> "RETURN"
    [] w = <<"f","u","n","c">> -> "FUNC"

OperatorSpellings ==
  { <<"+">>, <<"-">>, <<"*">>, <<"/">>, <<"=","=">>, <<"!","=">>,
    <<"<">>, <<">">>, <<"<","=">>, <<">","=">> }

\* OPERATORS[op], for op in OperatorSpellings
OPERATORS(op) ==
  CASE op = <<"+">> -> "PLUS"
    [] op = <<"-">> -> "MINUS"
    [] op = <<"*">> -> "MULTIPLY"
    [] op = <<"/">> -> "DIVIDE"
    [] op = <<"=","=">> -> "EQUAL"
    [] op = <<"!","=">> -> "NOT_EQUAL"
    [] op = <<"<">> -> "LESS_THAN"
    [] op = <<">">> -> "GREATER_THAN"
    [] op = <<"<","=">> -> "LESS_EQUAL"
    [] op = <<">","=">> -> "GREATER_EQUAL"

DelimiterChars == {"(", ")", "{", "}", ";", ","}

\* DELIMITERS[c], for c in DelimiterChars
DELIMITERS(c) ==
  CASE c = "(" -> "LPAREN"
    [] c = ")" -> "RPAREN"
    [] c = "{" -> "LBRACE"
    [] c = "}" -> "RBRACE"
    [] c = ";" -> "SEMICOLON"
    [] c = "," -> "COMMA"

\* the character classes, as the sets of the characters they accept
IdentifierChars == Letters \cup Digits \cup Fractions \cup {"_"}

is_valid_identifier_char(c) == c \in IdentifierChars

is_digit(c) == c \in Digits

is_letter(c) == c \in Letters

is_whitespace(c) == c \in {" ", "\t", "\r"}

is_newline(c) == c = "\n"

(***************************************************************************)
(* Error handler: src/src/error_handler.py.  A handler is the record       *)
(* [errors, error_count].                                                  *)
(***************************************************************************)
NewErrorHandler == [errors |-> <<>>, error_count |-> 0]

\* report_error without the increment of error_handler.py:27
report_error_uncounted(h, error_type, message, line, column, lexeme) ==
  LET error_token == Token(error_type, lexeme, line, column, message)
  IN [h |-> [errors |-> Append(h.errors, error_token),
             error_count |-> h.error_count],
      tok |-> error_token]

\* clear_errors without the reset of the counter of error_handler.py:115
clear_errors_keeps_count(h) == [errors |-> <<>>, error_count |-> h.error_count]

\* report_error: the handler after the call and the token it returns, which
\* is the very object appended to the log
report_error(h, error_type, message, line, column, lexeme) ==
  LET error_token == Token(error_type, lexeme, line, column, message)
  IN [h |-> [errors |-> Append(h.errors, error_token),
             error_count |-> h.error_count + 1],
      tok |-> error_token]

handle_unterminated_string(h, line, column, partial_string) ==
  report_error(h, "UNTERMINATED_STRING",
               <<"Unterminated string literal: '">> \o partial_string \o <<"'">>,
               line, column, partial_string)

handle_invalid_number(h, line, column, invalid_number) ==
  report_error(h, "INVALID_NUMBER",
               <<"Invalid number format: '">> \o invalid_number \o <<"'">>,
               line, column, invalid_number)

handle_invalid_symbol(h, line, column, symbol) ==
  report_error(h, "INVALID_SYMBOL",
               <<"Invalid symbol: '", symbol, "'">>,
               line, column, <<symbol>>)

handle_invalid_identifier(h, line, column, identifier) ==
  report_error(h, "ERROR",
               <<"Invalid identifier: '">> \o identifier
                 \o <<"' (must start with '071', '070', or '048')">>,
               line, column, identifier)

handle_nested_comment_error(h, line, column) ==
  report_error(h, "ERROR", <<"Nested multi-line comments are not supported">>,
               line, column, <<"/", "*">>)

\* handle_unterminated_comment leaving the lexeme argument of report_error
\* to its default, the empty string
handle_unterminated_comment_default_lexeme(h, line, column) ==
  report_error(h, "ERROR", <<"Unterminated multi-line comment">>,
               line, column, <<>>)

handle_unterminated_comment(h, line, column) ==
  report_error(h, "ERROR", <<"Unterminated multi-line comment">>,
               line, column, <<"/", "*">>)

has_errors(h) == h.error_count > 0

clear_errors(h) == [errors |-> <<>>, error_count |-> 0]

\* the longest digit string int() converts: CPython's default limit
\* (sys.int_info.default_max_str_digits); beyond it int() raises ValueError
IntMaxStrDigits == 4300

\* int() and float() strip the whitespace at both ends of their text:
\* the index of the first character that stays, Len(text) + 1 when none does
StripStart(text) ==
  CHOOSE a \in 1..(Len(text) + 1) :
     /\ a = Len(text) + 1 \/ text[a] \notin Blanks
     /\ \A i \in 1..(a - 1) : text[i] \in Blanks

\* the index of the last character that stays, 0 when none does
StripEnd(text) ==
  CHOOSE b \in 0..Len(text) :
     /\ b = 0 \/ text[b] \notin Blanks
     /\ \A i \in (b + 1)..Len(text) : text[i] \in Blanks

\* the index after an optional sign at index a of text[a..b]
AfterSign(text, a, b) == IF a <= b /\ text[a] \in {"+", "-"} THEN a + 1 ELSE a

\* text[a..b] is a non-empty run of decimal digits, where single
\* underscores may stand between two digits
GroupedDigits(text, a, b) ==
  /\ a <= b
  /\ \A i \in a..b :
        \/ text[i] \in DecimalDigits
        \/ /\ text[i] = "_"
           /\ a < i
           /\ i < b
           /\ text[i - 1] \in DecimalDigits
           /\ text[i + 1] \in DecimalDigits

\* the digits of text[s..b] parse as an integer within the limit
IntBody(text, s, b) ==
  /\ GroupedDigits(text, s, b)
  /\ Cardinality({i \in s..b : text[i] \in DecimalDigits}) <= IntMaxStrDigits

\* int(text) succeeds: [blanks] [sign] digits [blanks], with no more digits
\* than the limit
IntParses(text) ==
  IntBody(text, AfterSign(text, StripStart(text), StripEnd(text)), StripEnd(text))

\* the last index of the run of digits and underscores of text[s..b] that
\* starts at index s; s - 1 when the run is empty
DigitRunEnd(text, s, b) ==
  IF s > b THEN s - 1
  ELSE CHOOSE q \in (s - 1)..b :
          /\ q = b \/ text[q + 1] \notin DecimalDigits \cup {"_"}
          /\ \A i \in s..q : text[i] \in DecimalDigits \cup {"_"}

\* the spellings of the infinities and of not-a-number, in lower case
FloatWords ==
  { <<"i","n","f">>, <<"i","n","f","i","n","i","t","y">>, <<"n","a","n">> }

\* text[q2 + 1..b] is empty or an exponent: ('e'|'E') [sign] digits
FloatTail(text, q2, b) ==
  \/ q2 = b
  \/ /\ q2 < b
     /\ text[q2 + 1] \in {"e", "E"}
     /\ GroupedDigits(text, AfterSign(text, q2 + 2, b), b)

\* text[q1 + 1..b], after n1 digits of the integer part, is
\* ['.' [digits]] [exponent], with a digit before or after the point
FloatFraction(text, q1, q2, n1, b) ==
  /\ q2 > q1 + 1 => GroupedDigits(text, q1 + 2, q2)
  /\ n1 + (q2 - q1 - 1) > 0
  /\ FloatTail(text, q2, b)

\* text[s..b], after an optional sign, is
\* (digits ['.' [digits]] | '.' digits) [('e'|'E') [sign] digits]
FloatBody(text, s, q1, b) ==
  /\ q1 >= s => GroupedDigits(text, s, q1)
  /\ IF q1 < b /\ text[q1 + 1] = "."
     THEN FloatFraction(text, q1, DigitRunEnd(text, q1 + 2, b), q1 - s + 1, b)
     ELSE q1 >= s /\ FloatTail(text, q1, b)

\* text[s..b] is a number, an infinity or not-a-number
FloatValue(text, s, b) ==
  \/ FloatBody(text, s, DigitRunEnd(text, s, b), b)
  \/ /\ b - s + 1 \in {3, 8}
     /\ [i \in 1..(b - s + 1) |-> LowerChar(text[s + i - 1])] \in FloatWords

\* float(text) succeeds: [blanks] [sign] number [blanks]
FloatParses(text) ==
  FloatValue(text, AfterSign(text, StripStart(text), StripEnd(text)), StripEnd(text))

\* validate_number_format
validate_number_format(number_str) ==
  IF \/ \E i \in DOMAIN number_str : LowerChar(number_str[i]) = "e"
     \/ \E i \in DOMAIN number_str : number_str[i] = "E"
  THEN FloatParses(number_str)
  ELSE IF \E i \in DOMAIN number_str : number_str[i] = "."
       THEN FloatParses(number_str)
       ELSE IntParses(number_str)

(***************************************************************************)
(* Scanner: src/src/lexer.py.  A lexer is the record                       *)
(* [source, position, line, column, h] with h its error handler; a scan    *)
(* returns [lx |-> the lexer after it, tok |-> the token it returns].      *)
(***************************************************************************)
\* the None a scan step returns when it emits nothing
None == Token("NONE", <<>>, 0, 0, NoMsg)

NewLexer(source_code) ==
  [source |-> source_code, position |-> 0, line |-> 1, column |-> 1,
   h |-> NewErrorHandler]

current_char(lx) ==
  IF lx.position >= Len(lx.source) THEN NUL ELSE lx.source[lx.position + 1]

\* the IndexError of an index before the start of the string
IndexError == "IndexError"

\* a negative index of a Python string counts from its end
peek_char(lx, offset) ==
  LET pos == lx.position + offset
  IN IF pos >= Len(lx.source) THEN NUL
     ELSE IF pos >= 0 THEN lx.source[pos + 1]
     ELSE IF pos >= -Len(lx.source) THEN lx.source[Len(lx.source) + pos + 1]
     ELSE IndexError

\* advance with the newline case lost: the column is never reset
advance_without_newline(lx) ==
  IF lx.position >= Len(lx.source)
  THEN lx
  ELSE [lx EXCEPT !.position = @ + 1, !.column = @ + 1]

\* advance without the end-of-input test of lexer.py:38-39
advance_unguarded(lx) ==
  IF current_char(lx) = "\n"
  THEN [lx EXCEPT !.position = @ + 1, !.line = @ + 1, !.column = 1]
  ELSE [lx EXCEPT !.position = @ + 1, !.column = @ + 1]

\* advance: the lexer after the call (the character it returns is
\* current_char of the lexer before the call)
advance(lx) ==
  IF lx.position >= Len(lx.source)
  THEN lx
  ELSE LET char == lx.source[lx.position + 1]
       IN IF char = "\n"
          THEN [lx EXCEPT !.position = @ + 1, !.line = @ + 1, !.column = 1]
          ELSE [lx EXCEPT !.position = @ + 1, !.column = @ + 1]

\* the character advance returns
advanced_char(lx) == current_char(lx)

\* the run consumed with one advance too many: the cursor is left after the
\* character that stopped the loop of lexer.py:116
advance_to_overrun(lx, q) ==
  LET newlines == {i \in (lx.position + 1)..q : lx.source[i] = "\n"}
  IN [lx EXCEPT
        !.position = q + 1,
        !.line = @ + Cardinality(newlines),
        !.column = IF newlines = {}
                   THEN @ + (q - lx.position)
                   ELSE q - (CHOOSE m \in newlines : \A k \in newlines : k <= m) + 1]

\* the run consumed without the column count of lexer.py:47-48
advance_to_uncounted(lx, q) ==
  LET newlines == {i \in (lx.position + 1)..q : lx.source[i] = "\n"}
  IN [lx EXCEPT !.position = q, !.line = @ + Cardinality(newlines)]

\* the lexer after advance has been called for each character up to offset
\* q: a line more for each newline among them, and the column counted from
\* the last of these newlines, or from where it was when there is none
advance_to(lx, q) ==
  LET newlines == {i \in (lx.position + 1)..q : lx.source[i] = "\n"}
  IN [lx EXCEPT
        !.position = q,
        !.line = @ + Cardinality(newlines),
        !.column = IF newlines = {}
                   THEN @ + (q - lx.position)
                   ELSE q - (CHOOSE m \in newlines : \A k \in newlines : k <= m) + 1]

\* the offset at which "while current_char() in S" stops: the end of the
\* run of characters of S at the cursor (S never holds the sentinel)
run_end(lx, S) ==
  CHOOSE q \in lx.position..Len(lx.source) :
     /\ q = Len(lx.source) \/ lx.source[q + 1] \notin S
     /\ \A i \in (lx.position + 1)..q : lx.source[i] \in S

\* while current_char() in S: text += advance()
\* advance is called once for each character of the run and returns it
consume_while(lx, S, text) ==
  [lx |-> advance_to(lx, run_end(lx, S)),
   text |-> text \o SubSeq(lx.source, lx.position + 1, run_end(lx, S))]

\* the offset at which "while current_char() not in S" stops: that of the
\* first character of S at or after the cursor, or the end of the source
stop_at(lx, S) ==
  CHOOSE q \in lx.position..Len(lx.source) :
     /\ q = Len(lx.source) \/ lx.source[q + 1] \in S
     /\ \A i \in (lx.position + 1)..q : lx.source[i] \notin S

\* while current_char() not in S: text += advance()
consume_until(lx, S, text) ==
  [lx |-> advance_to(lx, stop_at(lx, S)),
   text |-> text \o SubSeq(lx.source, lx.position + 1, stop_at(lx, S))]

scan_single_line_comment(lx) ==
  LET start_line == lx.line
      start_col == lx.column
      a1 == advance(lx)
      a2 == advance(a1)
      r == consume_until(a2, {"\n", NUL},
                         <<advanced_char(lx), advanced_char(a1)>>)
  IN [lx |-> r.lx, tok |-> Token("COMMENT", r.text, start_line, start_col, NoMsg)]

\* the loop of _scan_multi_line_comment
RECURSIVE comment_loop(_, _, _, _)
comment_loop(lx, comment, start_line, start_col) ==
  IF current_char(lx) # NUL
  THEN IF current_char(lx) = "/" /\ peek_char(lx, 1) = "*"
       THEN LET e == handle_nested_comment_error(lx.h, lx.line, lx.column)
            IN [lx |-> [lx EXCEPT !.h = e.h], tok |-> e.tok]
       ELSE IF current_char(lx) = "*" /\ peek_char(lx, 1) = "/"
            THEN LET a1 == advance(lx)
                     a2 == advance(a1)
                 IN [lx |-> a2,
                     tok |-> Token("COMMENT",
                                   comment \o <<advanced_char(lx), advanced_char(a1)>>,
                                   start_line, start_col, NoMsg)]
            ELSE comment_loop(advance(lx), Append(comment, advanced_char(lx)),
                              start_line, start_col)
  ELSE LET e == handle_unterminated_comment(lx.h, start_line, start_col)
       IN [lx |-> [lx EXCEPT !.h = e.h], tok |-> e.tok]

\* a block comment scan without the nested opener test of lexer.py:163-166
RECURSIVE comment_loop_unchecked(_, _, _, _)
comment_loop_unchecked(lx, comment, start_line, start_col) ==
  IF current_char(lx) # NUL
  THEN IF current_char(lx) = "*" /\ peek_char(lx, 1) = "/"
       THEN [lx |-> advance(advance(lx)),
             tok |-> Token("COMMENT", comment \o <<"*", "/">>,
                           start_line, start_col, NoMsg)]
       ELSE comment_loop_unchecked(advance(lx), Append(comment, advanced_char(lx)),
                                   start_line, start_col)
  ELSE LET e == handle_unterminated_comment(lx.h, start_line, start_col)
       IN [lx |-> [lx EXCEPT !.h = e.h], tok |-> e.tok]

scan_multi_line_comment_unchecked(lx) ==
  comment_loop_unchecked(advance(advance(lx)), <<"/", "*">>, lx.line, lx.column)

scan_multi_line_comment(lx) ==
  LET a1 == advance(lx)
      a2 == advance(a1)
  IN comment_loop(a2, <<advanced_char(lx), advanced_char(a1)>>, lx.line, lx.column)

\* the loop of _scan_string
RECURSIVE string_loop(_, _, _, _)
string_loop(lx, string_value, start_line, start_col) ==
  IF current_char(lx) # NUL /\ current_char(lx) # "\n"
  THEN LET char == advanced_char(lx)
           value == Append(string_value, char)
       IN IF char = "$"
          THEN [lx |-> advance(lx),
                tok |-> Token("STRING", value, start_line, start_col, NoMsg)]
          ELSE string_loop(advance(lx), value, start_line, start_col)
  ELSE LET e == handle_unterminated_string(lx.h, start_line, start_col, string_value)
       IN [lx |-> [lx EXCEPT !.h = e.h], tok |-> e.tok]

\* _scan_string starting its text empty, without the opening $ of
\* lexer.py:184
scan_string_without_opener(lx) ==
  string_loop(advance(lx), <<>>, lx.line, lx.column)

scan_string(lx) ==
  string_loop(advance(lx), <<advanced_char(lx)>>, lx.line, lx.column)

\* _scan_number, from "Validate number format" on: r is the lexer and the
\* text of the numeral
number_classify(r, has_dot, start_line, start_col) ==
  IF ~validate_number_format(r.text)
  THEN LET e == handle_invalid_number(r.lx.h, start_line, start_col, r.text)
       IN [lx |-> [r.lx EXCEPT !.h = e.h], tok |-> e.tok]
  ELSE [lx |-> r.lx,
        tok |-> Token(IF has_dot \/ \E i \in DOMAIN r.text : LowerChar(r.text[i]) = "e"
                      THEN "FLOAT" ELSE "INTEGER",
                      r.text, start_line, start_col, NoMsg)]

\* _scan_number, after the exponent marker and its optional sign
number_exponent_digits(r, has_dot, start_line, start_col) ==
  IF ~is_digit(current_char(r.lx))
  THEN LET e == handle_invalid_number(r.lx.h, start_line, start_col, r.text)
       IN [lx |-> [r.lx EXCEPT !.h = e.h], tok |-> e.tok]
  ELSE number_classify(consume_while(r.lx, Digits, r.text),
                       has_dot, start_line, start_col)

\* the scan after the exponent marker with the sign of lexer.py:224-225 left
\* where it is
number_exponent_sign_skipped(r, has_dot, start_line, start_col) ==
  number_exponent_digits(r, has_dot, start_line, start_col)

\* _scan_number, after the exponent marker
number_exponent_sign(r, has_dot, start_line, start_col) ==
  IF current_char(r.lx) \in {"+", "-"}
  THEN number_exponent_digits(
         [lx |-> advance(r.lx), text |-> Append(r.text, advanced_char(r.lx))],
         has_dot, start_line, start_col)
  ELSE number_exponent_digits(r, has_dot, start_line, start_col)

\* _scan_number, from "Handle exponential notation" on
number_exponent(r, has_dot, start_line, start_col) ==
  IF LowerChar(current_char(r.lx)) = "e"
  THEN number_exponent_sign(
         [lx |-> advance(r.lx), text |-> Append(r.text, advanced_char(r.lx))],
         has_dot, start_line, start_col)
  ELSE number_classify(r, has_dot, start_line, start_col)

\* _scan_number, from "Handle decimal point" on
number_fraction(r, has_dot, start_line, start_col) ==
  IF current_char(r.lx) = "." /\ ~has_dot
  THEN number_exponent(
         consume_while(advance(r.lx), Digits, Append(r.text, advanced_char(r.lx))),
         TRUE, start_line, start_col)
  ELSE number_exponent(r, has_dot, start_line, start_col)

\* _scan_number, from "Scan digits" on
number_digits(r, has_dot, start_line, start_col) ==
  number_fraction(consume_while(r.lx, Digits, r.text), has_dot, start_line, start_col)

scan_number(lx) ==
  IF current_char(lx) = "."
  THEN number_digits([lx |-> advance(lx), text |-> <<advanced_char(lx)>>],
                     TRUE, lx.line, lx.column)
  ELSE number_digits([lx |-> lx, text |-> <<>>], FALSE, lx.line, lx.column)

LegalPrefixes == { <<"0","7","1">>, <<"0","7","0">>, <<"0","4","8">> }

scan_identifier(lx) ==
  LET start_line == lx.line
      start_col == lx.column
      a1 == advance(lx)
      a2 == advance(a1)
      a3 == advance(a2)
      prefix == <<advanced_char(lx), advanced_char(a1), advanced_char(a2)>>
      r == consume_while(a3, IdentifierChars, prefix)
  IN IF prefix \in LegalPrefixes
     THEN [lx |-> r.lx,
           tok |-> Token("IDENTIFIER", r.text, start_line, start_col, NoMsg)]
     ELSE [lx |-> r.lx,
           tok |-> Token("ERROR", r.text, start_line, start_col,
                         <<"Invalid identifier: ">> \o r.text)]

\* the underscore branch building its token without the error_msg of
\* lexer.py:119
scan_underscore_without_message(lx) ==
  LET r == consume_while(advance(lx), IdentifierChars, <<advanced_char(lx)>>)
  IN [lx |-> r.lx, tok |-> Token("ERROR", r.text, lx.line, lx.column, NoMsg)]

\* the underscore branch consuming the underscore alone
scan_underscore_alone(lx) ==
  [lx |-> advance(lx),
   tok |-> Token("ERROR", <<advanced_char(lx)>>, lx.line, lx.column,
                 <<"Invalid identifier: ", advanced_char(lx)>>)]

\* the underscore branch of _scan_token: the token is built by the scanner
\* itself, the error handler is not called
scan_underscore(lx) ==
  LET start_line == lx.line
      start_col == lx.column
      r == consume_while(advance(lx), IdentifierChars, <<advanced_char(lx)>>)
  IN [lx |-> r.lx,
      tok |-> Token("ERROR", r.text, start_line, start_col,
                    <<"Invalid identifier: ">> \o r.text)]

\* _scan_keyword looking the word up as written, without lower()
scan_keyword_case_sensitive(lx) ==
  LET r == consume_while(lx, IdentifierChars, <<>>)
  IN IF r.text \in KeywordWords
     THEN [lx |-> r.lx,
           tok |-> Token(KEYWORDS(r.text), r.text, lx.line, lx.column, NoMsg)]
     ELSE LET e == handle_invalid_identifier(r.lx.h, lx.line, lx.column, r.text)
          IN [lx |-> [r.lx EXCEPT !.h = e.h], tok |-> e.tok]

scan_keyword(lx) ==
  LET start_line == lx.line
      start_col == lx.column
      r == consume_while(lx, IdentifierChars, <<>>)
      word == r.text
  IN IF Lower(word) \in KeywordWords
     THEN [lx |-> r.lx,
           tok |-> Token(KEYWORDS(Lower(word)), word, start_line, start_col, NoMsg)]
     ELSE LET e == handle_invalid_identifier(r.lx.h, start_line, start_col, word)
          IN [lx |-> [r.lx EXCEPT !.h = e.h], tok |-> e.tok]

\* _scan_operator trying the one-character spelling first
scan_operator_short_first(lx) ==
  LET char == current_char(lx)
      two == <<char, peek_char(lx, 1)>>
  IN IF <<char>> \in OperatorSpellings
     THEN [lx |-> advance(lx),
           tok |-> Token(OPERATORS(<<char>>), <<char>>, lx.line, lx.column, NoMsg)]
     ELSE IF two \in OperatorSpellings
          THEN [lx |-> advance(advance(lx)),
                tok |-> Token(OPERATORS(two), two, lx.line, lx.column, NoMsg)]
          ELSE LET e == handle_invalid_symbol(lx.h, lx.line, lx.column, char)
               IN [lx |-> [advance(lx) EXCEPT !.h = e.h], tok |-> e.tok]

\* _scan_operator building the token of an unregistered character itself,
\* without the error handler call of lexer.py:302-304
scan_operator_unlogged(lx) ==
  LET char == current_char(lx)
      two == <<char, peek_char(lx, 1)>>
  IN IF two \in OperatorSpellings
     THEN [lx |-> advance(advance(lx)),
           tok |-> Token(OPERATORS(two), two, lx.line, lx.column, NoMsg)]
     ELSE IF <<char>> \in OperatorSpellings
          THEN [lx |-> advance(lx),
                tok |-> Token(OPERATORS(<<char>>), <<char>>, lx.line, lx.column, NoMsg)]
          ELSE [lx |-> advance(lx),
                tok |-> Token("INVALID_SYMBOL", <<char>>, lx.line, lx.column,
                              <<"Invalid symbol: '", char, "'">>)]

scan_operator(lx) ==
  LET start_line == lx.line
      start_col == lx.column
      char == current_char(lx)
      two == <<char, peek_char(lx, 1)>>
  IN IF two \in OperatorSpellings
     THEN [lx |-> advance(advance(lx)),
           tok |-> Token(OPERATORS(two), two, start_line, start_col, NoMsg)]
     ELSE IF <<char>> \in OperatorSpellings
          THEN [lx |-> advance(lx),
                tok |-> Token(OPERATORS(<<char>>), <<char>>, start_line, start_col, NoMsg)]
          ELSE LET e == handle_invalid_symbol(lx.h, start_line, start_col, char)
               IN [lx |-> [advance(lx) EXCEPT !.h = e.h], tok |-> e.tok]

\* the dispatch with a lookahead of two characters, 07 or 04, which leaves
\* the test of the third character to _scan_identifier
Dispatch_two_characters(lx) ==
  LET char == current_char(lx)
  IN IF char = NUL THEN "end"
     ELSE IF is_whitespace(char) THEN "whitespace"
     ELSE IF is_newline(char) THEN "newline"
     ELSE IF char = "/" /\ peek_char(lx, 1) = "/" THEN "line_comment"
     ELSE IF char = "/" /\ peek_char(lx, 1) = "*" THEN "block_comment"
     ELSE IF char = "$" THEN "string"
     ELSE IF char = "0" /\ peek_char(lx, 1) \in {"7", "4"} /\ peek_char(lx, 2) # NUL
          THEN "identifier"
     ELSE IF is_digit(char) \/ (char = "." /\ is_digit(peek_char(lx, 1)))
          THEN "number"
     ELSE IF char = "_" THEN "underscore"
     ELSE IF is_letter(char) THEN "word"
     ELSE IF char \in {"+", "-", "*", "/", "=", "!", "<", ">"} THEN "operator"
     ELSE IF char \in DelimiterChars THEN "delimiter"
     ELSE "invalid"

\* the dispatch with the lookahead of the module docstring: 071, 070 or 047
Dispatch_047(lx) ==
  LET char == current_char(lx)
  IN IF char = NUL THEN "end"
     ELSE IF is_whitespace(char) THEN "whitespace"
     ELSE IF is_newline(char) THEN "newline"
     ELSE IF char = "/" /\ peek_char(lx, 1) = "/" THEN "line_comment"
     ELSE IF char = "/" /\ peek_char(lx, 1) = "*" THEN "block_comment"
     ELSE IF char = "$" THEN "string"
     ELSE IF char = "0"
             /\ \/ peek_char(lx, 1) = "7" /\ peek_char(lx, 2) \in {"0", "1"}
                \/ peek_char(lx, 1) = "4" /\ peek_char(lx, 2) = "7"
          THEN "identifier"
     ELSE IF is_digit(char) \/ (char = "." /\ is_digit(peek_char(lx, 1)))
          THEN "number"
     ELSE IF char = "_" THEN "underscore"
     ELSE IF is_letter(char) THEN "word"
     ELSE IF char \in {"+", "-", "*", "/", "=", "!", "<", ">"} THEN "operator"
     ELSE IF char \in DelimiterChars THEN "delimiter"
     ELSE "invalid"

\* the branch of _scan_token's if-chain that the current character selects
Dispatch(lx) ==
  LET char == current_char(lx)
  IN IF char = NUL THEN "end"
     ELSE IF is_whitespace(char) THEN "whitespace"
     ELSE IF is_newline(char) THEN "newline"
     ELSE IF char = "/" /\ peek_char(lx, 1) = "/" THEN "line_comment"
     ELSE IF char = "/" /\ peek_char(lx, 1) = "*" THEN "block_comment"
     ELSE IF char = "$" THEN "string"
     ELSE IF char = "0"
             /\ \/ peek_char(lx, 1) = "7" /\ peek_char(lx, 2) \in {"0", "1"}
                \/ peek_char(lx, 1) = "4" /\ peek_char(lx, 2) = "8"
          THEN "identifier"
     ELSE IF is_digit(char) \/ (char = "." /\ is_digit(peek_char(lx, 1)))
          THEN "number"
     ELSE IF char = "_" THEN "underscore"
     ELSE IF is_letter(char) THEN "word"
     ELSE IF char \in {"+", "-", "*", "/", "=", "!", "<", ">"} THEN "operator"
     ELSE IF char \in DelimiterChars THEN "delimiter"
     ELSE "invalid"

\* the whitespace branch returning a WHITESPACE token for the character
scan_whitespace_emitting(lx) ==
  [lx |-> advance(lx),
   tok |-> Token("WHITESPACE", <<current_char(lx)>>, lx.line, lx.column, NoMsg)]

\* the newline branch consuming the newline without a token
scan_newline_silent(lx) == [lx |-> advance(lx), tok |-> None]

\* the whitespace branch of _scan_token
scan_whitespace(lx) == [lx |-> advance(lx), tok |-> None]

\* the newline branch of _scan_token
scan_newline(lx) ==
  LET a == advance(lx)
  IN [lx |-> a,
      tok |-> Token("NEWLINE", <<current_char(lx)>>, a.line, a.column, NoMsg)]

\* the delimiter branch of _scan_token
scan_delimiter(lx) ==
  LET a == advance(lx)
  IN [lx |-> a,
      tok |-> Token(DELIMITERS(current_char(lx)), <<current_char(lx)>>,
                    a.line, a.column, NoMsg)]

\* the last branch with a second advance after the one of lexer.py:135
scan_invalid_skipping(lx) ==
  LET a == advance(lx)
      e == handle_invalid_symbol(a.h, a.line, a.column, current_char(lx))
  IN [lx |-> [advance(a) EXCEPT !.h = e.h], tok |-> e.tok]

\* the last branch of _scan_token: no rule matches the character
scan_invalid(lx) ==
  LET a == advance(lx)
      e == handle_invalid_symbol(a.h, a.line, a.column, current_char(lx))
  IN [lx |-> [a EXCEPT !.h = e.h], tok |-> e.tok]

(***************************************************************************)
(* Source texts.  Every text of at most MaxLen characters over each of     *)
(* four alphabets, and the inputs of the repository's tests and            *)
(* documentation.                                                          *)
(***************************************************************************)
MaxLen == 3

\* the tokenize calls made on one lexer
MaxCalls == 2

\* the iterations of a loop that no longer advances that are followed
MaxSpin == 1

WordAlphabet == {"0", "7", "1", "4", "8", "e", "i", "f", "_", ".", "+", " "}

MarkAlphabet == {"/", "*", "$", "\n", NUL, "=", "!", "<", ">", "a", "1", " ", "@", "("}

MixedAlphabet == {"0", "7", "1", ".", "e", "_", "$", "/", "*", "\n", NUL, "<", "=", "-"}

\* digits, letters and alphanumeric characters from outside ASCII
ForeignAlphabet == {"²", ArabicIndicThree, "é", "É", "½", "1", ".", "e", "_", "~"}

TextsUpTo(S, n) == UNION {[1..k -> S] : k \in 0..n}

\* src/tests/run_tests.py:55
SrcKeywords ==
  <<"i", "f", " ", "e", "l", "s", "e", " ", "w", "h", "i", "l", "e", " ",
    "r", "e", "t", "u", "r", "n", " ", "f", "u", "n", "c">>

\* any letter case of a keyword
SrcKeywordsMixedCase ==
  <<"I", "F", " ", "E", "l", "s", "e", " ", "w", "H", "i", "L", "e">>

\* spec scenario; src/main.py:75 without the two last words
SrcUnderscore ==
  <<"_", "0", "7", "1", "t", "e", "s", "t", " ", "0", "7", "1", "v", "a",
    "l", "i", "d", " ", "_", "i", "n", "v", "a", "l", "i", "d">>

\* src/main.py:105 with func last
SrcFunc ==
  <<"0", "7", "1", "f", "u", "n", "c", " ", "0", "7", "0", "f", "u", "n",
    "c", " ", "0", "4", "8", "f", "u", "n", "c", " ", "f", "u", "n", "c">>

\* src/main.py:180 without ==
SrcOperators ==
  <<"<", " ", ">", " ", "<", ">", " ", "<", "=", " ", ">", "=">>

\* src/tests/run_tests.py:61, and <>=
SrcOperatorsAll ==
  <<"+", " ", "-", " ", "*", " ", "/", " ", "=", "=", " ", "!", "=", " ",
    "<", ">", "=">>

\* src/main.py:155 shortened
SrcStrings ==
  <<"$", "o", "k", "$", " ", "$", "b", "a", "d", "\n", "m", "o", "r", "e",
    "$">>

\* a NUL inside an unterminated literal
SrcStringNul ==
  <<"$", "a", NUL, "b", "\n">>

\* src/main.py:204 shortened
SrcNested ==
  <<"/", "*", " ", "a", " ", "/", "*", " ", "b", " ", "*", "/", " ", "c",
    " ", "*", "/">>

\* src/main.py:131 and src/tests/run_tests.py:52
SrcNumbers ==
  <<".", "5", " ", "3", ".", "1", "4", " ", ".", "0", " ", "2", ".", "5",
    "e", "1", "0", " ", "2", "E", "-", "5", " ", "1", "2", "3", " ", "0">>

\* src/main.py:131
SrcDotInvalid ==
  <<".", "i", "n", "v", "a", "l", "i", "d", " ", "1", "e", "+", " ", "2",
    ".", "e">>

\* src/app.py:337
SrcInvalidIdentifiers ==
  <<"n", "a", "m", "e", " ", "a", "b", "c", "0", "7", "1", " ", "0", "7",
    "2", "v", "a", "r">>

\* a word with a legal prefix right after a fraction point
SrcDotPrefix ==
  <<"3", ".", "0", "7", "1", "x", " ", ".", "0", "4", "8">>

\* src/main.py:227
SrcNameAndId ==
  <<"0", "7", "1", "B", "a", "y", "z", "i", "d", " ", "0", "7", "1", "2",
    "0", "2", "5", " ", "0", "7", "2", " ", "0">>

\* src/src/lexer.py:325 shortened
SrcProgram ==
  <<"/", "/", " ", "c", "\n", "i", "f", " ", "(", "0", "7", "1", "v", " ",
    "=", "=", " ", "4", "2", ")", " ", "{", "\n", "}">>

\* a delimiter, an unrecognized symbol and a nested comment opener, whose
\* tokens are built after the cursor has moved
SrcLateTokens ==
  <<"(", " ", "@", "\n", "/", "*", " ", "a", "\n", "/", "*", " ", "b">>

\* src/tests/run_tests.py:64 and src/src/lexer.py:333 shortened, with a tab
\* and a carriage return: a single-line comment, a block comment over two
\* lines, whitespace of each kind
SrcComments ==
  <<"/", "/", " ", "s", "\n", "/", "*", " ", "m", "\n", "l", " ", "*", "/",
    " ", "\t", "\r", "\n", ";">>

\* a NUL inside a closed block comment
SrcCommentNul ==
  <<"/", "*", "a", NUL, "b", "*", "/", ";">>

\* a NUL between a block comment opener and a second opener
SrcNestedNul ==
  <<"/", "*", NUL, "/", "*">>

\* a decimal integer one digit longer than int() converts
SrcLongInteger == [i \in 1..(IntMaxStrDigits + 1) |-> "1"]

\* a digit-only word of as many digits that starts with 0 and has no legal
\* prefix
SrcLongZeroInteger ==
  [i \in 1..(IntMaxStrDigits + 1) |-> IF i = 1 THEN "0" ELSE "1"]

\* a single-line comment over characters that belong to no token
SrcCommentSymbols ==
  <<"/", "/", " ", "s", "a", "y", " ", "\"", "h", "i", "\"", " ", "~", ":",
    "U+0001", "§", "\n", "1">>

\* an identifier and a keyword-shaped word that run over letters, digits
\* and fractions from outside ASCII, and a numeral of such digits
SrcForeignWords ==
  <<"0", "7", "1", "é", "½", "²", " ", "E", "l", "s", "É", " ", KelvinSign,
    "ª", " ", "4", ArabicIndicThree, ".", ArabicIndicThree, "E", "1">>

Scenarios ==
  {SrcLateTokens,
   SrcCommentSymbols,
   SrcForeignWords,
   SrcLongZeroInteger,
   SrcNestedNul,
   SrcCommentNul,
   SrcComments,
   SrcLongInteger,
   SrcKeywords,
   SrcKeywordsMixedCase,
   SrcUnderscore,
   SrcFunc,
   SrcOperators,
   SrcOperatorsAll,
   SrcStrings,
   SrcStringNul,
   SrcNested,
   SrcNumbers,
   SrcDotInvalid,
   SrcInvalidIdentifiers,
   SrcDotPrefix,
   SrcNameAndId,
   SrcProgram}

Sources ==
  TextsUpTo(WordAlphabet, MaxLen) \cup TextsUpTo(MarkAlphabet, MaxLen)
    \cup TextsUpTo(MixedAlphabet, MaxLen) \cup TextsUpTo(ForeignAlphabet, MaxLen)
    \cup Scenarios

(***************************************************************************)
(* State: one lexer (source, position, line, column, tokens), its error    *)
(* handler (errors, error_count), where its caller stands in tokenize      *)
(* (pc), how many tokenize calls the caller has made (calls) and how many  *)
(* iterations the loop of the current call has run (iterations); what the  *)
(* last direct call of an error handler method returned (result); and a    *)
(* second lexer with its own error handler (other), a record of the same   *)
(* fields.                                                                 *)
(***************************************************************************)
VARIABLES source, position, line, column, tokens, errors, error_count, pc, calls,
          iterations, result, other

vars ==
  <<source, position, line, column, tokens, errors, error_count, pc, calls, iterations,
    result, other>>

\* no second lexer has been constructed
NoLexer == [pc |-> "none"]

\* the lexer object of the current state
Lx ==
  [source |-> source, position |-> position, line |-> line, column |-> column,
   h |-> [errors |-> errors, error_count |-> error_count]]

Init ==
  /\ source \in Sources
  /\ position = NewLexer(source).position
  /\ line = NewLexer(source).line
  /\ column = NewLexer(source).column
  /\ errors = NewLexer(source).h.errors
  /\ error_count = NewLexer(source).h.error_count
  /\ tokens = <<>>
  /\ pc = "ready"
  /\ calls = 0
  /\ iterations = 0
  /\ result = None
  /\ other = NoLexer

\* an entry of tokenize that also puts the cursor back to the start
TokenizeCall_rewinds ==
  /\ pc \in {"ready", "done"}
  /\ calls < MaxCalls
  /\ tokens' = <<>>
  /\ pc' = "scanning"
  /\ calls' = calls + 1
  /\ iterations' = 0
  /\ position' = 0
  /\ line' = 1
  /\ column' = 1
  /\ UNCHANGED <<source, errors, error_count, result, other>>

\* tokenize, entry: the token buffer is cleared, the cursor is not reset
TokenizeCall ==
  /\ pc \in {"ready", "done"}
  /\ calls < MaxCalls
  /\ tokens' = <<>>
  /\ pc' = "scanning"
  /\ calls' = calls + 1
  /\ iterations' = 0
  /\ UNCHANGED <<source, position, line, column, errors, error_count, result, other>>

\* the loop body without the overwrite of the token's line and column
LoopBody_keeps_position(lx, tok) ==
  /\ pc = "scanning"
  /\ position < Len(source)
  /\ position' = lx.position
  /\ line' = lx.line
  /\ column' = lx.column
  /\ error_count' = lx.h.error_count
  /\ errors' = lx.h.errors
  /\ tokens' = IF tok = None THEN tokens ELSE Append(tokens, tok)
  /\ iterations' = iterations + 1
  /\ UNCHANGED <<source, pc, calls, result, other>>

\* the loop body overwriting the position of a copy of the token: the entry
\* of the error log keeps the position the error was constructed with
LoopBody_copies_token(lx, tok) ==
  /\ pc = "scanning"
  /\ position < Len(source)
  /\ position' = lx.position
  /\ line' = lx.line
  /\ column' = lx.column
  /\ error_count' = lx.h.error_count
  /\ errors' = lx.h.errors
  /\ tokens' = IF tok = None THEN tokens
               ELSE Append(tokens, [tok EXCEPT !.line = line, !.column = column])
  /\ iterations' = iterations + 1
  /\ UNCHANGED <<source, pc, calls, result, other>>

\* one iteration of tokenize's loop, given the lexer and the token that
\* _scan_token left: the token's line and column are overwritten with the
\* position the iteration started at.  A token report_error returned is the
\* object the log holds, so the overwrite shows in the log too.
LoopBody(lx, tok) ==
  /\ pc = "scanning"
  /\ position < Len(source)
  /\ position' = lx.position
  /\ line' = lx.line
  /\ column' = lx.column
  /\ error_count' = lx.h.error_count
  /\ IF tok = None
     THEN /\ tokens' = tokens
          /\ errors' = lx.h.errors
     ELSE /\ tokens' = Append(tokens, [tok EXCEPT !.line = line, !.column = column])
          /\ errors' = IF Len(lx.h.errors) > Len(errors)
                       THEN [lx.h.errors EXCEPT
                               ![Len(lx.h.errors)] =
                                  [tok EXCEPT !.line = line, !.column = column]]
                       ELSE lx.h.errors
  /\ iterations' = iterations + 1
  /\ UNCHANGED <<source, pc, calls, result, other>>

\* the iterations, by the branch of _scan_token they take
\* the current character is the NUL character: _scan_token returns None and
\* the cursor stays where it is, so the loop runs the same iteration again;
\* the model follows it for MaxSpin iterations past the length of the source
ScanEnd ==
  /\ Dispatch(Lx) = "end"
  /\ iterations < Len(source) + MaxSpin
  /\ LoopBody(Lx, None)

ScanWhitespace ==
  /\ Dispatch(Lx) = "whitespace"
  /\ LET r == scan_whitespace(Lx) IN LoopBody(r.lx, r.tok)

ScanNewline ==
  /\ Dispatch(Lx) = "newline"
  /\ LET r == scan_newline(Lx) IN LoopBody(r.lx, r.tok)

ScanLineComment ==
  /\ Dispatch(Lx) = "line_comment"
  /\ LET r == scan_single_line_comment(Lx) IN LoopBody(r.lx, r.tok)

ScanBlockComment ==
  /\ Dispatch(Lx) = "block_comment"
  /\ LET r == scan_multi_line_comment(Lx) IN LoopBody(r.lx, r.tok)

ScanString ==
  /\ Dispatch(Lx) = "string"
  /\ LET r == scan_string(Lx) IN LoopBody(r.lx, r.tok)

ScanIdentifier ==
  /\ Dispatch(Lx) = "identifier"
  /\ LET r == scan_identifier(Lx) IN LoopBody(r.lx, r.tok)

ScanNumber ==
  /\ Dispatch(Lx) = "number"
  /\ LET r == scan_number(Lx) IN LoopBody(r.lx, r.tok)

ScanUnderscore ==
  /\ Dispatch(Lx) = "underscore"
  /\ LET r == scan_underscore(Lx) IN LoopBody(r.lx, r.tok)

ScanWord ==
  /\ Dispatch(Lx) = "word"
  /\ LET r == scan_keyword(Lx) IN LoopBody(r.lx, r.tok)

ScanOperator ==
  /\ Dispatch(Lx) = "operator"
  /\ LET r == scan_operator(Lx) IN LoopBody(r.lx, r.tok)

ScanDelimiter ==
  /\ Dispatch(Lx) = "delimiter"
  /\ LET r == scan_delimiter(Lx) IN LoopBody(r.lx, r.tok)

ScanInvalid ==
  /\ Dispatch(Lx) = "invalid"
  /\ LET r == scan_invalid(Lx) IN LoopBody(r.lx, r.tok)

\* the return of tokenize with the EOF token placed at the start of the
\* source instead of at the cursor
TokenizeReturn_eof_at_origin ==
  /\ pc = "scanning"
  /\ ~(position < Len(source))
  /\ tokens' = Append(tokens, Token("EOF", <<>>, 1, 1, NoMsg))
  /\ pc' = "done"
  /\ UNCHANGED <<source, position, line, column, errors, error_count, calls, iterations,
               result, other>>

\* tokenize, after the loop: the EOF token is appended and the buffer returned
TokenizeReturn ==
  /\ pc = "scanning"
  /\ ~(position < Len(source))
  /\ tokens' = Append(tokens, Token("EOF", <<>>, line, column, NoMsg))
  /\ pc' = "done"
  /\ UNCHANGED <<source, position, line, column, errors, error_count, calls, iterations,
               result, other>>

Next ==
  \/ TokenizeCall
  \/ ScanEnd
  \/ ScanWhitespace
  \/ ScanNewline
  \/ ScanLineComment
  \/ ScanBlockComment
  \/ ScanString
  \/ ScanIdentifier
  \/ ScanNumber
  \/ ScanUnderscore
  \/ ScanWord
  \/ ScanOperator
  \/ ScanDelimiter
  \/ ScanInvalid
  \/ TokenizeReturn

Spec == Init /\ [][Next]_vars


(***************************************************************************)
(* What the properties below are stated with.  Positions are computed from *)
(* the source text alone, not by the scanner.                              *)
(***************************************************************************)
\* the offsets among the first o characters of src that hold a newline
NewlinesBefore(src, o) == {i \in 1..o : src[i] = "\n"}

\* the 1-based line of the character at offset o (o characters precede it)
LineAt(src, o) == 1 + Cardinality(NewlinesBefore(src, o))

\* the 1-based column of the character at offset o
ColumnAt(src, o) ==
  LET nl == NewlinesBefore(src, o)
  IN IF nl = {} THEN o + 1
     ELSE o - (CHOOSE m \in nl : \A k \in nl : k <= m) + 1

\* src reads the text at offset o
ReadsAt(src, o, text) ==
  /\ o + Len(text) <= Len(src)
  /\ \A k \in 1..Len(text) : src[o + k] = text[k]

\* the token's (line, column) is that of an offset where src reads its lexeme
PointsAtLexeme(src, t) ==
  \E o \in 0..Len(src) :
     /\ LineAt(src, o) = t.line
     /\ ColumnAt(src, o) = t.column
     /\ ReadsAt(src, o, t.value)

\* the offset a (line, column) names, for a token that points into src
OffsetOf(src, t) ==
  CHOOSE o \in 0..Len(src) : LineAt(src, o) = t.line /\ ColumnAt(src, o) = t.column

Types(ts) == [i \in DOMAIN ts |-> ts[i].type]

ErrorTokens(ts) == {i \in DOMAIN ts : ts[i].type \in ErrorTypes}

\* tokenize has returned from its first call on the lexer
Returned == pc = "done" /\ calls = 1

(***************************************************************************)
(* C1.  For every source text, the NUL character included, tokenize        *)
(* terminates and the last token it returns is EOF.  An iteration of the   *)
(* loop that consumes nothing leaves the lexer as it was and so repeats    *)
(* for ever: the call terminates iff every iteration consumes a character, *)
(* and then the loop runs at most Len(source) iterations.                  *)
(***************************************************************************)
C1_TokenizeTerminates ==
  /\ iterations <= Len(source)
  /\ pc = "done" => tokens # <<>> /\ tokens[Len(tokens)].type = "EOF"

(***************************************************************************)
(* C2.  What tokenize returns on a fresh scanner holds exactly one EOF     *)
(* token, as its last element, and that token's (line, column) is the      *)
(* position just after the last character of the source.                   *)
(***************************************************************************)
C2_OneEofAtFinalCursor ==
  Returned =>
    /\ Len(tokens) >= 1
    /\ \A i \in DOMAIN tokens : tokens[i].type = "EOF" <=> i = Len(tokens)
    /\ tokens[Len(tokens)].line = LineAt(source, Len(source))
    /\ tokens[Len(tokens)].column = ColumnAt(source, Len(source))
    /\ position = Len(source)

C2_Witness ==
  /\ Returned
  /\ source = SrcStrings
  /\ tokens[Len(tokens)] = Token("EOF", <<>>, 2, 6, NoMsg)

(***************************************************************************)
(* C3.  Every token other than COMMENT, NEWLINE and EOF carries the        *)
(* 1-based (line, column) of the first character of its lexeme in the      *)
(* source, also when it was built after the cursor had moved on            *)
(* (delimiters, unrecognized symbols, nested comment openers).             *)
(***************************************************************************)
C3_TokensPointAtLexeme ==
  \A i \in DOMAIN tokens :
     tokens[i].type \notin {"COMMENT", "NEWLINE", "EOF"}
       => PointsAtLexeme(source, tokens[i])

C3_Witness ==
  /\ Returned
  /\ source = SrcLateTokens
  /\ tokens = << Token("LPAREN", <<"(">>, 1, 1, NoMsg),
                 Token("INVALID_SYMBOL", <<"@">>, 1, 3, <<"Invalid symbol: '", "@", "'">>),
                 Token("NEWLINE", <<"\n">>, 1, 4, NoMsg),
                 Token("ERROR", <<"/", "*">>, 2, 1,
                       <<"Nested multi-line comments are not supported">>),
                 Token("ERROR", <<"/", "*">>, 3, 1, <<"Unterminated multi-line comment">>),
                 Token("EOF", <<>>, 3, 5, NoMsg) >>

(***************************************************************************)
(* C4.  After tokenize, every error token of the output is in the error    *)
(* log and error_count is the number of error tokens of the output.        *)
(***************************************************************************)
C4_ErrorTokensAreLogged ==
  Returned =>
    /\ \A i \in ErrorTokens(tokens) : \E j \in DOMAIN errors : errors[j] = tokens[i]
    /\ error_count = Cardinality(ErrorTokens(tokens))
    /\ source = SrcUnderscore => error_count = 2

\* the end offset of the maximal run of identifier characters that starts at
\* offset p of src
WordEnd(src, p) ==
  CHOOSE q \in p..Len(src) :
     /\ q = Len(src) \/ src[q + 1] \notin IdentifierChars
     /\ \A i \in (p + 1)..q : src[i] \in IdentifierChars

\* that run
WordAt(src, p) == SubSeq(src, p + 1, WordEnd(src, p))

\* a word (a maximal run of identifier characters) starts at offset p
WordStartsAt(src, p) ==
  /\ p < Len(src)
  /\ src[p + 1] \in IdentifierChars
  /\ p = 0 \/ src[p] \notin IdentifierChars

\* the first three characters of w are exactly 071, 070 or 048
HasLegalPrefix(w) ==
  /\ Len(w) >= 3
  /\ <<w[1], w[2], w[3]>> \in { <<"0","7","1">>, <<"0","7","0">>, <<"0","4","8">> }

\* the source opens no string and no comment: every word of it is outside
\* strings and comments
NoStringsOrComments(src) == \A i \in DOMAIN src : src[i] \notin {"$", "/"}

\* the tokens of ts that start at offset p of src
TokensAt(src, ts, p) ==
  {i \in DOMAIN ts : ts[i].type # "EOF" /\ OffsetOf(src, ts[i]) = p}

\* the loop of tokenize is about to run an iteration
AboutToScan == pc = "scanning" /\ position < Len(source)

(***************************************************************************)
(* C5.  As claimed: every word outside strings and comments is tokenized   *)
(* as one IDENTIFIER token iff its first three characters are exactly 071, *)
(* 070 or 048.  Stated of what tokenize returns for the sources that open  *)
(* no string and no comment.                                               *)
(***************************************************************************)
C5_EveryWordIdentifierIffPrefix ==
  (Returned /\ NoStringsOrComments(source)) =>
     \A p \in 0..(Len(source) - 1) :
        WordStartsAt(source, p) =>
          ( HasLegalPrefix(WordAt(source, p))
            <=> \E i \in TokensAt(source, tokens, p) :
                   /\ tokens[i].type = "IDENTIFIER"
                   /\ tokens[i].value = WordAt(source, p) )

(***************************************************************************)
(* C5, amended.  A word at whose first character a scan step starts is     *)
(* tokenized by that step as one IDENTIFIER token holding the whole word   *)
(* iff its first three characters are exactly 071, 070 or 048; and         *)
(* 071func 070func 048func func gives three IDENTIFIER tokens, FUNC and    *)
(* EOF with error count 0.                                                 *)
(***************************************************************************)
C5_ScannedWordIdentifierIffPrefix ==
  [][ /\ (AboutToScan /\ WordStartsAt(source, position)) =>
           ( HasLegalPrefix(WordAt(source, position))
             <=> /\ tokens' = Append(tokens, Token("IDENTIFIER", WordAt(source, position),
                                                   line, column, NoMsg))
                 /\ position' = WordEnd(source, position) )
      /\ (pc' = "done" /\ calls' = 1 /\ source = SrcFunc) =>
           /\ Types(tokens') = <<"IDENTIFIER", "IDENTIFIER", "IDENTIFIER", "FUNC", "EOF">>
           /\ error_count' = 0
    ]_vars

C5_Witness ==
  /\ Returned
  /\ source = SrcFunc
  /\ tokens[3] = Token("IDENTIFIER", <<"0","4","8","f","u","n","c">>, 1, 17, NoMsg)
  /\ tokens[4].type = "FUNC"

(***************************************************************************)
(* C6.  Every word that holds a letter and does not begin with 071, 070 or *)
(* 048 is tokenized as exactly one token covering the whole word, a        *)
(* keyword token when it is a keyword in any letter case and an ERROR      *)
(* token otherwise; no part of it is emitted as a number or an identifier. *)
(* Stated of what tokenize returns for the sources that open no string and *)
(* no comment.                                                             *)
(***************************************************************************)
C6_OtherWordsKeywordOrError ==
  (Returned /\ NoStringsOrComments(source)) =>
     \A p \in 0..(Len(source) - 1) :
        ( /\ WordStartsAt(source, p)
          /\ \E k \in (p + 1)..WordEnd(source, p) : source[k] \in Letters
          /\ ~HasLegalPrefix(WordAt(source, p)) )
        => /\ \E i \in TokensAt(source, tokens, p) :
                /\ tokens[i].value = WordAt(source, p)
                /\ IF Lower(WordAt(source, p)) \in KeywordWords
                   THEN tokens[i].type \in {"IF", "ELSE", "WHILE", "RETURN", "FUNC"}
                   ELSE tokens[i].type = "ERROR"
           /\ \A q \in p..(WordEnd(source, p) - 1) :
                \A i \in TokensAt(source, tokens, q) :
                   tokens[i].type \notin {"INTEGER", "FLOAT", "IDENTIFIER"}

(***************************************************************************)
(* C7.  A scan step that starts at an underscore consumes the underscore   *)
(* and the whole run of identifier characters after it and emits them as   *)
(* exactly one ERROR token: no IDENTIFIER token comes from the run, even   *)
(* when a legal prefix follows the underscore.                             *)
(***************************************************************************)
C7_UnderscoreRunIsOneError ==
  [][ (AboutToScan /\ source[position + 1] = "_") =>
         /\ Len(tokens') = Len(tokens) + 1
         /\ \A i \in DOMAIN tokens : tokens'[i] = tokens[i]
         /\ tokens'[Len(tokens')].type = "ERROR"
         /\ tokens'[Len(tokens')].value = WordAt(source, position)
         /\ tokens'[Len(tokens')].line = line
         /\ tokens'[Len(tokens')].column = column
         /\ position' = WordEnd(source, position)
    ]_vars

C7_Witness ==
  /\ Returned
  /\ source = SrcUnderscore
  /\ Types(tokens) = <<"ERROR", "IDENTIFIER", "ERROR", "EOF">>
  /\ tokens[1].value = <<"_", "0", "7", "1", "t", "e", "s", "t">>
  /\ tokens[2].value = <<"0", "7", "1", "v", "a", "l", "i", "d">>

\* the keyword kind the claim gives a lowercase keyword
ClaimedKeywordKind(w) ==
  CASE w = <<"i","f">> -> "IF"
    [] w = <<"e","l","s","e">> -> "ELSE"
    [] w = <<"w","h","i","l","e">> -> "WHILE"
    [] w = <<"r","e","t","u","r","n">> -> "RETURN"
    [] w = <<"f","u","n","c">> -> "FUNC"
    [] OTHER -> "none"

(***************************************************************************)
(* C8.  A scan step that starts at a letter of a run whose lowercase form  *)
(* is if, else, while, return or func emits the keyword token of that      *)
(* word, in any letter case, with the text as written as its lexeme, and   *)
(* logs no error; if else while return func gives IF ELSE WHILE RETURN     *)
(* FUNC EOF with zero errors.                                              *)
(***************************************************************************)
C8_KeywordsInAnyCase ==
  [][ /\ ( /\ AboutToScan
           /\ source[position + 1] \in Letters
           /\ ClaimedKeywordKind(Lower(WordAt(source, position))) # "none" )
         => /\ tokens' = Append(tokens,
                           Token(ClaimedKeywordKind(Lower(WordAt(source, position))),
                                 WordAt(source, position), line, column, NoMsg))
            /\ errors' = errors
            /\ error_count' = error_count
      /\ (pc' = "done" /\ calls' = 1 /\ source = SrcKeywords) =>
           /\ Types(tokens') = <<"IF", "ELSE", "WHILE", "RETURN", "FUNC", "EOF">>
           /\ error_count' = 0
    ]_vars

C8_Witness ==
  /\ Returned
  /\ source = SrcKeywordsMixedCase
  /\ tokens[1] = Token("IF", <<"I", "F">>, 1, 1, NoMsg)
  /\ tokens[2] = Token("ELSE", <<"E", "l", "s", "e">>, 1, 4, NoMsg)
  /\ tokens[3] = Token("WHILE", <<"w", "H", "i", "L", "e">>, 1, 9, NoMsg)
  /\ error_count = 0

\* the operator kind the claim gives a two-character spelling
ClaimedTwoCharKind(op) ==
  CASE op = <<"=","=">> -> "EQUAL"
    [] op = <<"!","=">> -> "NOT_EQUAL"
    [] op = <<"<","=">> -> "LESS_EQUAL"
    [] op = <<">","=">> -> "GREATER_EQUAL"

TwoCharOperators == { <<"=","=">>, <<"!","=">>, <<"<","=">>, <<">","=">> }

\* token i of what tokenize returned starts where the source reads one of
\* ==, !=, <=, >= : it is that two-character operator
TwoCharOperatorAt(i) ==
  \A op \in TwoCharOperators :
     ReadsAt(source, OffsetOf(source, tokens[i]), op)
       => tokens[i].type = ClaimedTwoCharKind(op) /\ tokens[i].value = op

(***************************************************************************)
(* C9.  As claimed: wherever ==, !=, <= or >= stands at a token start it   *)
(* is one two-character token, and <> at a token start is always two       *)
(* tokens, LESS_THAN then GREATER_THAN; < > <> <= >= gives LESS_THAN       *)
(* GREATER_THAN LESS_THAN GREATER_THAN LESS_EQUAL GREATER_EQUAL EOF.       *)
(***************************************************************************)
C9_LessGreaterAlwaysTwoOneCharTokens ==
  Returned =>
    /\ \A i \in 1..(Len(tokens) - 1) :
          /\ TwoCharOperatorAt(i)
          /\ ReadsAt(source, OffsetOf(source, tokens[i]), <<"<", ">">>)
               => /\ tokens[i].type = "LESS_THAN" /\ tokens[i].value = <<"<">>
                  /\ tokens[i + 1].type = "GREATER_THAN"
                  /\ tokens[i + 1].value = <<">">>
    /\ source = SrcOperators =>
         Types(tokens) = <<"LESS_THAN", "GREATER_THAN", "LESS_THAN", "GREATER_THAN",
                           "LESS_EQUAL", "GREATER_EQUAL", "EOF">>

(***************************************************************************)
(* C9, amended.  Wherever ==, !=, <= or >= stands at a token start it is   *)
(* one two-character token; <> at a token start is two tokens, LESS_THAN   *)
(* and then GREATER_THAN, unless = follows it, when the second token is    *)
(* the longer GREATER_EQUAL (<>= is < and >=); < > <> <= >= gives          *)
(* LESS_THAN GREATER_THAN LESS_THAN GREATER_THAN LESS_EQUAL GREATER_EQUAL  *)
(* EOF.                                                                    *)
(***************************************************************************)
C9_GreedyOperators ==
  Returned =>
    /\ \A i \in 1..(Len(tokens) - 1) :
          /\ TwoCharOperatorAt(i)
          /\ ReadsAt(source, OffsetOf(source, tokens[i]), <<"<", ">">>)
               => /\ tokens[i].type = "LESS_THAN" /\ tokens[i].value = <<"<">>
                  /\ IF ReadsAt(source, OffsetOf(source, tokens[i]), <<"<", ">", "=">>)
                     THEN /\ tokens[i + 1].type = "GREATER_EQUAL"
                          /\ tokens[i + 1].value = <<">", "=">>
                     ELSE /\ tokens[i + 1].type = "GREATER_THAN"
                          /\ tokens[i + 1].value = <<">">>
    /\ source = SrcOperators =>
         Types(tokens) = <<"LESS_THAN", "GREATER_THAN", "LESS_THAN", "GREATER_THAN",
                           "LESS_EQUAL", "GREATER_EQUAL", "EOF">>

C9_Witness ==
  /\ Returned
  /\ source = SrcOperatorsAll
  /\ Types(tokens) = <<"PLUS", "MINUS", "MULTIPLY", "DIVIDE", "EQUAL", "NOT_EQUAL",
                       "LESS_THAN", "GREATER_EQUAL", "EOF">>

\* the offset of the first newline of src at or after offset p, or the length
\* of src when there is none
LineEnd(src, p) ==
  CHOOSE q \in p..Len(src) :
     /\ q = Len(src) \/ src[q + 1] = "\n"
     /\ \A i \in (p + 1)..q : src[i] # "\n"

(***************************************************************************)
(* C10.  A scan step that starts at a $ with no closing $ before the next  *)
(* newline, or before the end of input, emits exactly one                  *)
(* UNTERMINATED_STRING token whose lexeme is the text from the $ up to but *)
(* excluding the newline, and logs an error; what tokenize returns for     *)
(* $ok$ $bad\nmore$ starts with STRING $ok$, UNTERMINATED_STRING, with an  *)
(* error count of at least 1.                                              *)
(***************************************************************************)
C10_UnterminatedStringToLineEnd ==
  [][ /\ ( /\ AboutToScan
           /\ source[position + 1] = "$"
           /\ \A i \in (position + 2)..LineEnd(source, position) : source[i] # "$" )
         => /\ tokens' = Append(tokens,
                           [type |-> "UNTERMINATED_STRING",
                            value |-> SubSeq(source, position + 1, LineEnd(source, position)),
                            line |-> line, column |-> column,
                            error_msg |-> tokens'[Len(tokens')].error_msg])
            /\ position' = LineEnd(source, position)
            /\ error_count' = error_count + 1
      /\ (pc' = "done" /\ calls' = 1 /\ source = SrcStrings) =>
           /\ tokens'[1] = Token("STRING", <<"$", "o", "k", "$">>, 1, 1, NoMsg)
           /\ tokens'[2].type = "UNTERMINATED_STRING"
           /\ error_count' >= 1
    ]_vars

(***************************************************************************)
(* C11.  Block comments do not nest: what tokenize returns for             *)
(* /* a /* b */ c */ holds an ERROR token for the nested opener and no     *)
(* COMMENT token for any part of that text.                                *)
(***************************************************************************)
C11_NestedCommentLeavesNoComment ==
  (Returned /\ source = SrcNested) =>
     /\ \E i \in DOMAIN tokens :
           tokens[i].type = "ERROR" /\ tokens[i].value = <<"/", "*">>
     /\ \A i \in DOMAIN tokens : tokens[i].type # "COMMENT"

\* the end offset of the maximal run of digits that starts at offset p of src
DigitsEnd(src, p) ==
  CHOOSE q \in p..Len(src) :
     /\ q = Len(src) \/ src[q + 1] \notin Digits
     /\ \A i \in (p + 1)..q : src[i] \in Digits

\* the end offset of the mantissa of the numeral that starts at offset p of
\* src: a point and digits, or digits and an optional point and digits
MantissaEnd(src, p) ==
  IF src[p + 1] = "."
  THEN DigitsEnd(src, p + 1)
  ELSE LET d == DigitsEnd(src, p)
       IN IF d < Len(src) /\ src[d + 1] = "." THEN DigitsEnd(src, d + 1) ELSE d

\* the end offset of the exponent marker and its optional sign, when the
\* marker stands at offset m of src
MarkerEnd(src, m) ==
  IF m + 1 < Len(src) /\ src[m + 2] \in {"+", "-"} THEN m + 2 ELSE m + 1

\* t is a well-formed numeral: a mantissa that holds a digit (digits with
\* an optional fraction point, or a point and digits) and, optionally, an
\* exponent marker, an optional sign and at least one digit; its digits are
\* decimal digits, not the superscript digits the digit class also accepts
WellFormedNumeral(t) ==
  /\ Len(t) > 0
  /\ \A i \in DOMAIN t : t[i] \in Digits => t[i] \in DecimalDigits
  /\ LET m == MantissaEnd(t, 0)
     IN /\ \E i \in 1..m : t[i] \in Digits
        /\ \/ m = Len(t)
           \/ /\ t[m + 1] \in {"e", "E"}
              /\ MarkerEnd(t, m) < Len(t)
              /\ DigitsEnd(t, MarkerEnd(t, m)) = Len(t)

\* a fraction point or an exponent marker is in t
HasPointOrExponent(t) == \E i \in DOMAIN t : t[i] \in {".", "e", "E"}

\* the number scan is what a scan step at offset p of src runs: a digit that
\* does not open 071, 070 or 048, or a point before a digit
NumberStartsAt(src, p) ==
  /\ p < Len(src)
  /\ \/ /\ src[p + 1] \in Digits
        /\ ~ReadsAt(src, p, <<"0", "7", "0">>)
        /\ ~ReadsAt(src, p, <<"0", "7", "1">>)
        /\ ~ReadsAt(src, p, <<"0", "4", "8">>)
     \/ /\ src[p + 1] = "."
        /\ p + 1 < Len(src)
        /\ src[p + 2] \in Digits

\* the text a step consumes
Consumed == SubSeq(source, position + 1, position')

(***************************************************************************)
(* C12.  When the text the number scan consumes is a well-formed numeral,  *)
(* the scan emits exactly one token holding it, of type FLOAT iff a        *)
(* fraction point or an exponent marker is in it and INTEGER otherwise,    *)
(* and logs nothing; .5 3.14 .0 2.5e10 2E-5 123 0 gives five FLOAT tokens  *)
(* and then two INTEGER tokens.                                            *)
(***************************************************************************)
C12_WellFormedNumeralFloatOrInteger ==
  [][ /\ (AboutToScan /\ NumberStartsAt(source, position) /\ WellFormedNumeral(Consumed))
         => /\ tokens' = Append(tokens,
                           Token(IF HasPointOrExponent(Consumed) THEN "FLOAT" ELSE "INTEGER",
                                 Consumed, line, column, NoMsg))
            /\ errors' = errors
            /\ error_count' = error_count
      /\ (pc' = "done" /\ calls' = 1 /\ source = SrcNumbers) =>
           Types(tokens') = <<"FLOAT", "FLOAT", "FLOAT", "FLOAT", "FLOAT",
                              "INTEGER", "INTEGER", "EOF">>
    ]_vars

(***************************************************************************)
(* C13.  A scan step that starts at a point which no digit follows (the    *)
(* point of .invalid) emits an INVALID_NUMBER token.                       *)
(***************************************************************************)
C13_PointBeforeNonDigitIsInvalidNumber ==
  [][ ( /\ AboutToScan
        /\ source[position + 1] = "."
        /\ ~(position + 1 < Len(source) /\ source[position + 2] \in Digits) )
      => /\ Len(tokens') = Len(tokens) + 1
         /\ tokens'[Len(tokens')].type = "INVALID_NUMBER"
    ]_vars

\* the numeral that starts at offset p of src has an exponent marker, and an
\* optional sign, with no digit after it
BadExponentAt(src, p) ==
  LET m == MantissaEnd(src, p)
  IN /\ m < Len(src)
     /\ src[m + 1] \in {"e", "E"}
     /\ MarkerEnd(src, m) = Len(src) \/ src[MarkerEnd(src, m) + 1] \notin Digits

(***************************************************************************)
(* C14.  A number scan that meets an exponent marker, e or E and an        *)
(* optional sign, with no digit after it emits exactly one INVALID_NUMBER  *)
(* token whose lexeme is the numeral up to and including the marker and    *)
(* the sign, appends that token to the error log, and leaves the cursor    *)
(* on the character right after that text.                                 *)
(***************************************************************************)
C14_ExponentWithoutDigits ==
  [][ ( /\ AboutToScan
        /\ NumberStartsAt(source, position)
        /\ BadExponentAt(source, position) )
      => LET end == MarkerEnd(source, MantissaEnd(source, position))
             tok == tokens'[Len(tokens')]
         IN /\ Len(tokens') = Len(tokens) + 1
            /\ SubSeq(tokens', 1, Len(tokens)) = tokens
            /\ tok.type = "INVALID_NUMBER"
            /\ tok.value = SubSeq(source, position + 1, end)
            /\ tok.line = line /\ tok.column = column
            /\ errors' = Append(errors, tok)
            /\ error_count' = error_count + 1
            /\ position' = end
    ]_vars

C14_Witness ==
  /\ Returned
  /\ source = SrcDotInvalid
  /\ tokens[3].type = "INVALID_NUMBER"
  /\ tokens[3].value = <<"1", "e", "+">>
  /\ tokens[4].type = "INVALID_NUMBER"
  /\ tokens[4].value = <<"2", ".", "e">>
  /\ errors[3] = tokens[3]
  /\ error_count = 4

\* the step appends exactly one token, and it is of an error type
EmitsError ==
  /\ Len(tokens') = Len(tokens) + 1
  /\ tokens'[Len(tokens')].type \in ErrorTypes

\* the step is a block comment scan: it starts at /*
AtBlockCommentOpener == ReadsAt(source, position, <<"/", "*">>)

(***************************************************************************)
(* C15.  As claimed: after a scan step emits an error token, of whatever   *)
(* error type, the next scan step starts right after that token's lexeme,  *)
(* at the start offset of the token plus the length of its lexeme.         *)
(***************************************************************************)
C15_ResumeRightAfterErrorLexeme ==
  [][ (AboutToScan /\ EmitsError) =>
         position' = position + Len(tokens'[Len(tokens')].value)
    ]_vars

(***************************************************************************)
(* C15, amended.  After a scan step emits an error token the next scan     *)
(* step starts where the failing scan stopped, never before the end of the *)
(* token's lexeme: right after the lexeme for every error that is not a    *)
(* block comment error; a block comment error has the fixed lexeme /* and  *)
(* the comment text the scan had consumed before it failed is not scanned  *)
(* again.                                                                  *)
(***************************************************************************)
C15_ResumeAfterError ==
  [][ (AboutToScan /\ EmitsError) =>
         IF AtBlockCommentOpener
         THEN /\ tokens'[Len(tokens')].value = <<"/", "*">>
              /\ position' >= position + 2
         ELSE position' = position + Len(tokens'[Len(tokens')].value)
    ]_vars

C15_Witness ==
  /\ pc = "scanning"
  /\ Len(source) = 3
  /\ source[1] = "/" /\ source[2] = "*" /\ source[3] \notin {"/", "*", NUL}
  /\ position = 3
  /\ Len(tokens) = 1
  /\ tokens[1].type = "ERROR"
  /\ tokens[1].value = <<"/", "*">>

(***************************************************************************)
(* The error handler on its own: src/src/error_handler.py.  A caller       *)
(* constructs an ErrorHandler and calls report_error, its failure          *)
(* constructors and clear_errors in any order; pc names the method that    *)
(* returned last and result is the token the last of these calls returned. *)
(***************************************************************************)
\* the log is followed up to this many entries
MaxErrors == 2

\* the (line, column) pairs and the offending texts the caller passes
HandlerPositions == { <<1, 1>>, <<2, 5>> }

HandlerTexts == { <<>>, <<"a">> }

HandlerSymbols == { "@", "#" }

\* the token types and the messages the caller passes to report_error: any
\* member of TokenType, an error type or not, and any text, each one piece,
\* the empty string among them
HandlerTypes == {"IDENTIFIER", "ERROR"}

HandlerMessages == { <<"">>, <<"custom">> }

\* the handler object of the current state
H == [errors |-> errors, error_count |-> error_count]

HandlerInit ==
  /\ errors = NewErrorHandler.errors
  /\ error_count = NewErrorHandler.error_count
  /\ result = None
  /\ pc = "handler"
  /\ source = <<>>
  /\ position = 0
  /\ line = 1
  /\ column = 1
  /\ tokens = <<>>
  /\ calls = 0
  /\ iterations = 0
  /\ other = NoLexer

\* report_error or a failure constructor returns r = [h, tok]
HandlerReturn(r, method) ==
  /\ Len(errors) < MaxErrors
  /\ errors' = r.h.errors
  /\ error_count' = r.h.error_count
  /\ result' = r.tok
  /\ pc' = method
  /\ UNCHANGED <<source, position, line, column, tokens, calls, iterations, other>>

ReportError ==
  \E error_type \in HandlerTypes, message \in HandlerMessages,
     p \in HandlerPositions, lexeme \in HandlerTexts :
     HandlerReturn(report_error(H, error_type, message, p[1], p[2], lexeme),
                   "report_error")

HandleUnterminatedString ==
  \E p \in HandlerPositions, text \in HandlerTexts :
     HandlerReturn(handle_unterminated_string(H, p[1], p[2], text),
                   "handle_unterminated_string")

HandleInvalidNumber ==
  \E p \in HandlerPositions, text \in HandlerTexts :
     HandlerReturn(handle_invalid_number(H, p[1], p[2], text), "handle_invalid_number")

HandleInvalidSymbol ==
  \E p \in HandlerPositions, symbol \in HandlerSymbols :
     HandlerReturn(handle_invalid_symbol(H, p[1], p[2], symbol), "handle_invalid_symbol")

HandleInvalidIdentifier ==
  \E p \in HandlerPositions, text \in HandlerTexts :
     HandlerReturn(handle_invalid_identifier(H, p[1], p[2], text),
                   "handle_invalid_identifier")

HandleNestedCommentError ==
  \E p \in HandlerPositions :
     HandlerReturn(handle_nested_comment_error(H, p[1], p[2]),
                   "handle_nested_comment_error")

HandleUnterminatedComment ==
  \E p \in HandlerPositions :
     HandlerReturn(handle_unterminated_comment(H, p[1], p[2]),
                   "handle_unterminated_comment")

ClearErrors ==
  /\ pc # "clear_errors"
  /\ errors' = clear_errors(H).errors
  /\ error_count' = clear_errors(H).error_count
  /\ pc' = "clear_errors"
  /\ UNCHANGED <<source, position, line, column, tokens, calls, iterations, result, other>>

HandlerNext ==
  \/ ReportError
  \/ HandleUnterminatedString
  \/ HandleInvalidNumber
  \/ HandleInvalidSymbol
  \/ HandleInvalidIdentifier
  \/ HandleNestedCommentError
  \/ HandleUnterminatedComment
  \/ ClearErrors

HandlerSpec == HandlerInit /\ [][HandlerNext]_vars

\* the failure constructors, and the error type each gives its token
Constructors ==
  {"handle_unterminated_string", "handle_invalid_number", "handle_invalid_symbol",
   "handle_invalid_identifier", "handle_nested_comment_error",
   "handle_unterminated_comment"}

ConstructorType(method) ==
  CASE method = "handle_unterminated_string" -> "UNTERMINATED_STRING"
    [] method = "handle_invalid_number" -> "INVALID_NUMBER"
    [] method = "handle_invalid_symbol" -> "INVALID_SYMBOL"
    [] OTHER -> "ERROR"

(***************************************************************************)
(* C16.  Each failure constructor of the error handler raises error_count  *)
(* by exactly 1, appends exactly one token at the end of the log and       *)
(* returns that same token; and after any sequence of constructor and      *)
(* clear_errors calls error_count is the length of the log.                *)
(***************************************************************************)
C16_ConstructorsCountAndAppend ==
  [][ /\ pc' \in Constructors =>
           /\ error_count' = error_count + 1
           /\ errors' = Append(errors, result')
           /\ result'.type = ConstructorType(pc')
      /\ error_count' = Len(errors')
    ]_vars

C16_Witness ==
  /\ pc = "handle_nested_comment_error"
  /\ error_count = 2
  /\ errors[1].type = "INVALID_NUMBER"
  /\ errors[2] = result
  /\ result.value = <<"/", "*">>

(***************************************************************************)
(* C17.  After clear_errors the log is empty, error_count is 0 and         *)
(* has_errors() is false, whatever had been logged before; and in every    *)
(* state has_errors() is true iff error_count > 0, which is iff the log    *)
(* holds an entry.                                                         *)
(***************************************************************************)
C17_ClearEmptiesTheLog ==
  /\ pc = "clear_errors" => (errors = <<>> /\ error_count = 0 /\ ~has_errors(H))
  /\ has_errors(H) <=> error_count > 0
  /\ has_errors(H) <=> errors # <<>>

C17_Witness ==
  /\ pc = "clear_errors"
  /\ result # None
  /\ errors = <<>>
  /\ ~has_errors(H)

(***************************************************************************)
(* C18.  On a lexer whose tokenize has run to completion, a second         *)
(* tokenize call returns the EOF token alone, at the final cursor          *)
(* position, and leaves the cursor and the error log as they were.         *)
(***************************************************************************)
C18_SecondTokenizeOnlyEof ==
  [][ calls' = 2 =>
        /\ position = Len(source)
        /\ UNCHANGED <<position, line, column, errors, error_count>>
        /\ pc' = "done" =>
             tokens' = << Token("EOF", <<>>, LineAt(source, Len(source)),
                                ColumnAt(source, Len(source)), NoMsg) >>
    ]_vars

C18_Witness ==
  /\ pc = "done"
  /\ calls = 2
  /\ Len(tokens) = 1
  /\ tokens[1].type = "EOF"
  /\ Len(source) > 1
  /\ line = 2
  /\ error_count = 1
  /\ errors # <<>>

(***************************************************************************)
(* Two lexers side by side: src/src/lexer.py.  The second lexer is the     *)
(* record other = [pc, lx, tokens, iterations], with lx a lexer record     *)
(* that holds its own error handler; its tokenize runs one loop iteration  *)
(* at a time, interleaved in any order with the iterations of the first.   *)
(***************************************************************************)
\* the body of a branch of _scan_token
scan_branch(lx, branch) ==
  CASE branch = "end" -> [lx |-> lx, tok |-> None]
    [] branch = "whitespace" -> scan_whitespace(lx)
    [] branch = "newline" -> scan_newline(lx)
    [] branch = "line_comment" -> scan_single_line_comment(lx)
    [] branch = "block_comment" -> scan_multi_line_comment(lx)
    [] branch = "string" -> scan_string(lx)
    [] branch = "identifier" -> scan_identifier(lx)
    [] branch = "number" -> scan_number(lx)
    [] branch = "underscore" -> scan_underscore(lx)
    [] branch = "word" -> scan_keyword(lx)
    [] branch = "operator" -> scan_operator(lx)
    [] branch = "delimiter" -> scan_delimiter(lx)
    [] OTHER -> scan_invalid(lx)

\* _scan_token on a lexer record: the branch Dispatch selects
scan_token(lx) == scan_branch(lx, Dispatch(lx))

\* one iteration of tokenize's loop on a lexer record and its token buffer;
\* the overwrite of line and column shows in the log entry that is the token
\* the token with its line and column overwritten with the start position
token_at_start(lx, tok) == [tok EXCEPT !.line = lx.line, !.column = lx.column]

\* the loop body after _scan_token has left the lexer and the token of r
append_token(lx, r, toks) ==
  IF r.tok = None
  THEN [lx |-> r.lx, tokens |-> toks]
  ELSE [lx |-> IF Len(r.lx.h.errors) > Len(lx.h.errors)
               THEN [r.lx EXCEPT !.h.errors[Len(r.lx.h.errors)] = token_at_start(lx, r.tok)]
               ELSE r.lx,
        tokens |-> Append(toks, token_at_start(lx, r.tok))]

tokenize_iteration(lx, toks) == append_token(lx, scan_token(lx), toks)

\* the sources of the two lexers: between them they take every branch of
\* _scan_token
PairSources ==
  { <<"@", "\n", "(">>,
    <<"_", "a", " ", "$", "b">>,
    <<"/", "/", "c", "\n", "/", "*">>,
    <<"0", "7", "1", " ", "1", "e", " ", "x", "<">>,
    <<"a", NUL>> }

PairInit ==
  /\ source \in PairSources
  /\ position = NewLexer(source).position
  /\ line = NewLexer(source).line
  /\ column = NewLexer(source).column
  /\ errors = NewLexer(source).h.errors
  /\ error_count = NewLexer(source).h.error_count
  /\ tokens = <<>>
  /\ pc = "ready"
  /\ calls = 0
  /\ iterations = 0
  /\ result = None
  /\ \E source_code \in PairSources :
        other = [pc |-> "ready", lx |-> NewLexer(source_code), tokens |-> <<>>,
                 iterations |-> 0]

OtherFrame ==
  UNCHANGED <<source, position, line, column, tokens, errors, error_count, pc, calls,
              iterations, result>>

\* tokenize of the second lexer, entry
OtherTokenizeCall ==
  /\ other.pc = "ready"
  /\ other' = [other EXCEPT !.pc = "scanning", !.tokens = <<>>, !.iterations = 0]
  /\ OtherFrame

\* the second lexer after an iteration that left the lexer and buffer of r
OtherAfter(r) ==
  [other EXCEPT !.lx = r.lx, !.tokens = r.tokens, !.iterations = other.iterations + 1]

\* an iteration of the second lexer that appends its errors to the handler
\* of the first
OtherScan_shared_handler ==
  /\ other.pc = "scanning"
  /\ other.lx.position < Len(other.lx.source)
  /\ Dispatch(other.lx) = "end" => other.iterations < Len(other.lx.source) + MaxSpin
  /\ LET r == tokenize_iteration([other.lx EXCEPT !.h = H], other.tokens)
     IN /\ other' = [other EXCEPT !.lx = [r.lx EXCEPT !.h = other.lx.h],
                                  !.tokens = r.tokens,
                                  !.iterations = other.iterations + 1]
        /\ errors' = r.lx.h.errors
        /\ error_count' = r.lx.h.error_count
  /\ UNCHANGED <<source, position, line, column, tokens, pc, calls, iterations, result>>

\* one iteration of the loop of the second lexer's tokenize
OtherScan ==
  /\ other.pc = "scanning"
  /\ other.lx.position < Len(other.lx.source)
  /\ Dispatch(other.lx) = "end" => other.iterations < Len(other.lx.source) + MaxSpin
  /\ other' = OtherAfter(tokenize_iteration(other.lx, other.tokens))
  /\ OtherFrame

\* tokenize of the second lexer, after the loop
OtherTokenizeReturn ==
  /\ other.pc = "scanning"
  /\ ~(other.lx.position < Len(other.lx.source))
  /\ other' = [other EXCEPT
                 !.pc = "done",
                 !.tokens = Append(other.tokens,
                                   Token("EOF", <<>>, other.lx.line, other.lx.column, NoMsg))]
  /\ OtherFrame

PairNext ==
  \/ TokenizeCall
  \/ ScanEnd
  \/ ScanWhitespace
  \/ ScanNewline
  \/ ScanLineComment
  \/ ScanBlockComment
  \/ ScanString
  \/ ScanIdentifier
  \/ ScanNumber
  \/ ScanUnderscore
  \/ ScanWord
  \/ ScanOperator
  \/ ScanDelimiter
  \/ ScanInvalid
  \/ TokenizeReturn
  \/ OtherTokenizeCall
  \/ OtherScan
  \/ OtherTokenizeReturn

PairSpec == PairInit /\ [][PairNext]_vars

\* tokenize on a lexer record, run alone: the loop, at most fuel iterations
\* of it, and the EOF token; done is FALSE when the loop has not ended
RECURSIVE run_alone(_, _, _)
run_alone_from(r, fuel) == run_alone(r.lx, r.tokens, fuel)

run_alone(lx, toks, fuel) ==
  IF ~(lx.position < Len(lx.source))
  THEN [done |-> TRUE,
        tokens |-> Append(toks, Token("EOF", <<>>, lx.line, lx.column, NoMsg)),
        h |-> lx.h]
  ELSE IF fuel = 0
       THEN [done |-> FALSE, tokens |-> toks, h |-> lx.h]
       ELSE run_alone_from(tokenize_iteration(lx, toks), fuel - 1)

\* what a fresh lexer over src returns and logs when no other lexer runs; an
\* iteration that ends consumes a character, so Len(src) iterations suffice
RunAlone(src) == run_alone(NewLexer(src), <<>>, Len(src))

(***************************************************************************)
(* C19.  Two lexers over independent sources, their loop iterations        *)
(* interleaved in any order: no step of one changes the cursor, the token  *)
(* buffer or the error log of the other, and each returns the tokens and   *)
(* ends with the error log it has when run alone.                          *)
(***************************************************************************)
C19_InstancesDoNotInterfere ==
  [][ /\ \/ UNCHANGED <<source, position, line, column, tokens, errors, error_count>>
         \/ UNCHANGED other
      /\ (pc' = "done" /\ calls' = 1) =>
           /\ RunAlone(source).done
           /\ tokens' = RunAlone(source).tokens
           /\ errors' = RunAlone(source).h.errors
           /\ error_count' = RunAlone(source).h.error_count
      /\ other'.pc = "done" =>
           /\ RunAlone(other.lx.source).done
           /\ other'.tokens = RunAlone(other.lx.source).tokens
           /\ other'.lx.h = RunAlone(other.lx.source).h
    ]_vars

C19_Witness ==
  /\ pc = "scanning"
  /\ other.pc = "scanning"
  /\ source # other.lx.source
  /\ position > 0 /\ position < Len(source)
  /\ other.lx.position > 0 /\ other.lx.position < Len(other.lx.source)
  /\ error_count = 1
  /\ other.lx.h.error_count = 1
  /\ errors # other.lx.h.errors

\* the four error kinds of the claims
ClaimedErrorKinds == {"ERROR", "UNTERMINATED_STRING", "INVALID_NUMBER", "INVALID_SYMBOL"}

\* a token of an error kind carries a message that is not None and not empty
CarriesDetail(t) ==
  t.type \in ClaimedErrorKinds => (t.error_msg # NoMsg /\ Len(t.error_msg) > 0)

(***************************************************************************)
(* C20.  Every token of an error kind (ERROR, UNTERMINATED_STRING,         *)
(* INVALID_NUMBER, INVALID_SYMBOL) that a scan produces, in the output or  *)
(* in the error log, carries a non-empty error_msg, whether the error      *)
(* handler built it or the scanner itself; and is_error() is true of a     *)
(* token exactly when its type is one of those four.                       *)
(***************************************************************************)
C20_ErrorTokensCarryDetail ==
  /\ \A i \in DOMAIN tokens :
        /\ tokens[i].type \in TokenTypes
        /\ CarriesDetail(tokens[i])
        /\ IsError(tokens[i]) <=> tokens[i].type \in ClaimedErrorKinds
  /\ \A j \in DOMAIN errors : CarriesDetail(errors[j]) /\ IsError(errors[j])
  /\ \A type \in TokenTypes :
        IsError(Token(type, <<>>, 1, 1, NoMsg)) <=> type \in ClaimedErrorKinds

C20_Witness ==
  /\ Returned
  /\ source = <<"_", ".">>
  /\ tokens[1].type = "ERROR"
  /\ tokens[1].error_msg = <<"Invalid identifier: ", "_">>
  /\ tokens[2].type = "INVALID_SYMBOL"
  /\ tokens[2].error_msg = <<"Invalid symbol: '", ".", "'">>
  /\ errors = <<tokens[2]>>

(***************************************************************************)
(* C21.  From each step to the next the cursor offset does not decrease,   *)
(* a second tokenize call included, and it never exceeds the length of the *)
(* source.                                                                 *)
(***************************************************************************)
C21_CursorMonotoneAndBounded ==
  [][ /\ position' >= position
      /\ position' <= Len(source') ]_vars

\* a scan has moved the cursor over several lines to the end of the source
C21_Witness ==
  /\ Returned
  /\ source = SrcProgram
  /\ position = Len(source)
  /\ Len(tokens) = 12

(***************************************************************************)
(* C22.  In every state, line is 1 plus the number of newlines among the   *)
(* consumed characters, column is 1 plus the number of characters consumed *)
(* since the last consumed newline (since the start when there is none),   *)
(* and both are at least 1.                                                *)
(***************************************************************************)
C22_LineColumnDescribeCursor ==
  /\ line = 1 + Cardinality(NewlinesBefore(source, position))
  /\ column = 1 + ( IF NewlinesBefore(source, position) = {}
                    THEN position
                    ELSE position - (CHOOSE m \in NewlinesBefore(source, position) :
                                       \A k \in NewlinesBefore(source, position) : k <= m) )
  /\ line >= 1
  /\ column >= 1

\* the cursor stands inside the third line of a source, after a block
\* comment that spans two lines
C22_Witness ==
  /\ pc = "scanning"
  /\ source = SrcComments
  /\ position = 14
  /\ line = 3
  /\ column = 5

(***************************************************************************)
(* C23.  No token of type WHITESPACE is ever in the token buffer, and a    *)
(* scan step that starts at a space, a tab or a carriage return (a         *)
(* whitespace character outside strings and comments) consumes that one    *)
(* character and emits and logs nothing.                                   *)
(***************************************************************************)
C23_WhitespaceConsumedSilently ==
  [][ /\ \A i \in DOMAIN tokens' : tokens'[i].type # "WHITESPACE"
      /\ (AboutToScan /\ source[position + 1] \in {" ", "\t", "\r"})
            => /\ tokens' = tokens
               /\ position' = position + 1
               /\ errors' = errors
               /\ error_count' = error_count
    ]_vars

\* a source with a space, a tab and a carriage return outside comments and
\* strings has been tokenized
C23_Witness ==
  /\ Returned
  /\ source = SrcComments
  /\ Types(tokens) = <<"COMMENT", "NEWLINE", "COMMENT", "NEWLINE", "SEMICOLON", "EOF">>

(***************************************************************************)
(* C24.  A step moves the cursor over a newline character only as a block  *)
(* comment scan or as the newline step, which consumes that one character  *)
(* and appends exactly one NEWLINE token at the position of the newline    *)
(* character itself; so do the newline that ends a single-line comment and *)
(* the newline that cuts off an unterminated string.                       *)
(***************************************************************************)
C24_NewlineTokensRetained ==
  [][ /\ \A p \in position..(position' - 1) :
           (source[p + 1] = "\n" /\ ~AtBlockCommentOpener)
             => /\ p = position
                /\ position' = position + 1
                /\ tokens' = Append(tokens,
                                    Token("NEWLINE", <<"\n">>, LineAt(source, p),
                                          ColumnAt(source, p), NoMsg))
      /\ (pc' = "done" /\ calls' = 1 /\ source = SrcStrings)
            => tokens'[3] = Token("NEWLINE", <<"\n">>, 1, 10, NoMsg)
    ]_vars

\* the newline that ends a single-line comment and the newline after a
\* block comment each gave a NEWLINE token; the newline inside the block
\* comment gave none
C24_Witness ==
  /\ Returned
  /\ source = SrcComments
  /\ Len(tokens) = 6
  /\ tokens[2] = Token("NEWLINE", <<"\n">>, 1, 5, NoMsg)
  /\ tokens[4] = Token("NEWLINE", <<"\n">>, 3, 8, NoMsg)

(***************************************************************************)
(* C25.  A scan step that starts at // appends one COMMENT token whose     *)
(* lexeme is the text from the // up to but excluding the next newline, or *)
(* up to the end of input, and leaves the cursor on that newline; the next *)
(* token after such a comment, when a newline follows it, is NEWLINE.      *)
(***************************************************************************)
C25_LineCommentToLineEnd ==
  [][ /\ (AboutToScan /\ ReadsAt(source, position, <<"/", "/">>))
           => /\ tokens' = Append(tokens,
                             Token("COMMENT",
                                   SubSeq(source, position + 1, LineEnd(source, position)),
                                   line, column, NoMsg))
              /\ position' = LineEnd(source, position)
      /\ ( /\ AboutToScan
           /\ tokens # <<>>
           /\ tokens[Len(tokens)].type = "COMMENT"
           /\ SubSeq(tokens[Len(tokens)].value, 1, 2) = <<"/", "/">>
           /\ source[position + 1] = "\n" )
           => /\ Len(tokens') = Len(tokens) + 1
              /\ tokens'[Len(tokens')].type = "NEWLINE"
    ]_vars

\* src reads */ at offset q
ClosesAt(src, q) == ReadsAt(src, q, <<"*", "/">>)

\* src reads /* at offset k
OpensAt(src, k) == ReadsAt(src, k, <<"/", "*">>)

\* the block comment opened at offset p of src is closed: a */ follows the
\* opener
IsClosed(src, p) == \E q \in (p + 2)..Len(src) : ClosesAt(src, q)

\* the offset of the first */ that follows the opener at offset p
FirstCloser(src, p) ==
  CHOOSE q \in (p + 2)..Len(src) :
     ClosesAt(src, q) /\ \A k \in (p + 2)..(q - 1) : ~ClosesAt(src, k)

\* a /* stands between the opener at offset p and the first */ after it
HasNestedOpener(src, p) ==
  \E k \in (p + 2)..(FirstCloser(src, p) - 1) : OpensAt(src, k)

\* the lexeme of a COMMENT token has one of the two shapes of a comment
CommentShape(v) ==
  \/ /\ Len(v) >= 2
     /\ SubSeq(v, 1, 2) = <<"/", "/">>
     /\ \A i \in DOMAIN v : v[i] # "\n"
  \/ /\ Len(v) >= 4
     /\ SubSeq(v, 1, 2) = <<"/", "*">>
     /\ SubSeq(v, Len(v) - 1, Len(v)) = <<"*", "/">>
     /\ \A k \in 1..(Len(v) - 1) : ~OpensAt(v, k)

(***************************************************************************)
(* C26.  A scan step that starts at a /* which is closed and has no /*     *)
(* before its first */ appends one COMMENT token whose lexeme is the text  *)
(* from the /* through that */, over several lines or not, and logs        *)
(* nothing; and every COMMENT token of the buffer either starts with //    *)
(* and holds no newline, or starts with /*, ends with */ and holds no      *)
(* further /*.                                                             *)
(***************************************************************************)
C26_ClosedBlockCommentIsOneComment ==
  [][ /\ ( /\ AboutToScan
           /\ AtBlockCommentOpener
           /\ IsClosed(source, position)
           /\ ~HasNestedOpener(source, position) )
           => /\ tokens' = Append(tokens,
                             Token("COMMENT",
                                   SubSeq(source, position + 1,
                                          FirstCloser(source, position) + 2),
                                   line, column, NoMsg))
              /\ position' = FirstCloser(source, position) + 2
              /\ errors' = errors
              /\ error_count' = error_count
      /\ \A i \in DOMAIN tokens' :
            tokens'[i].type = "COMMENT" => CommentShape(tokens'[i].value)
    ]_vars

\* the block comment opened at offset p of src has a /* inside it: a /*
\* follows the opener with no */ between the two
NestedOpenerAt(src, p) ==
  CHOOSE k \in (p + 2)..Len(src) :
     /\ OpensAt(src, k)
     /\ \A j \in (p + 2)..(k - 1) : ~OpensAt(src, j) /\ ~ClosesAt(src, j)

HasNestedBeforeClose(src, p) ==
  \E k \in (p + 2)..Len(src) :
     /\ OpensAt(src, k)
     /\ \A j \in (p + 2)..(k - 1) : ~OpensAt(src, j) /\ ~ClosesAt(src, j)

(***************************************************************************)
(* C27.  A scan step that starts at a /* with a /* inside it (no */ comes  *)
(* before the inner one) appends exactly one ERROR token with lexeme /*    *)
(* that carries the (line, column) of the outer /*, where the step         *)
(* started; the error log gets the same token, with the same position, as  *)
(* its last entry and the error count rises by one; the comment text       *)
(* consumed up to the inner /* is in no token.  When no NUL character      *)
(* comes before the inner /*, the message is that of a nested comment and  *)
(* the cursor is left on the inner /*.                                     *)
(***************************************************************************)
C27_NestedErrorAtOuterOpener ==
  [][ ( /\ AboutToScan
        /\ AtBlockCommentOpener
        /\ HasNestedBeforeClose(source, position) )
      => /\ Len(tokens') = Len(tokens) + 1
         /\ SubSeq(tokens', 1, Len(tokens)) = tokens
         /\ tokens'[Len(tokens')].type = "ERROR"
         /\ tokens'[Len(tokens')].value = <<"/", "*">>
         /\ tokens'[Len(tokens')].line = LineAt(source, position)
         /\ tokens'[Len(tokens')].column = ColumnAt(source, position)
         /\ errors' = Append(errors, tokens'[Len(tokens')])
         /\ error_count' = error_count + 1
         /\ position' >= position + 2
         /\ (\A i \in (position + 1)..NestedOpenerAt(source, position) : source[i] # NUL)
              => /\ tokens'[Len(tokens')].error_msg
                      = <<"Nested multi-line comments are not supported">>
                 /\ position' = NestedOpenerAt(source, position)
    ]_vars

\* the nested opener of the second line of SrcLateTokens stands on line 3;
\* the error token and the log entry carry line 2, column 1 of the outer
\* opener
C27_Witness ==
  /\ Returned
  /\ source = SrcLateTokens
  /\ tokens[4] = Token("ERROR", <<"/", "*">>, 2, 1,
                       <<"Nested multi-line comments are not supported">>)
  /\ errors[2] = tokens[4]
  /\ error_count = 3

(***************************************************************************)
(* C28.  A scan step that starts at a /* which no */ and no /* follows     *)
(* appends exactly one ERROR token with lexeme /* at the position of the   *)
(* opener, logs it, and leaves the cursor at the end of the source, so     *)
(* that the next token appended is EOF.                                    *)
(***************************************************************************)
C28_UnterminatedCommentToEndOfInput ==
  [][ /\ ( /\ AboutToScan
           /\ AtBlockCommentOpener
           /\ ~IsClosed(source, position)
           /\ ~HasNestedBeforeClose(source, position) )
           => /\ tokens' = Append(tokens,
                             Token("ERROR", <<"/", "*">>, LineAt(source, position),
                                   ColumnAt(source, position),
                                   <<"Unterminated multi-line comment">>))
              /\ errors' = Append(errors, tokens'[Len(tokens')])
              /\ error_count' = error_count + 1
              /\ position' = Len(source)
      /\ ( /\ pc = "scanning"
           /\ tokens # <<>>
           /\ tokens[Len(tokens)].error_msg = <<"Unterminated multi-line comment">>
           /\ tokens' # tokens )
           => tokens' = Append(tokens, Token("EOF", <<>>, line, column, NoMsg))
    ]_vars

(***************************************************************************)
(* C29.  Whenever the dispatch selects the identifier-prefix scan, the     *)
(* three characters at the cursor are exactly 071, 070 or 048, and the     *)
(* scan appends one IDENTIFIER token holding the whole word, never an      *)
(* error token, and logs nothing: the error branch of the scan is not      *)
(* reached.                                                                *)
(***************************************************************************)
C29_IdentifierScanNeverFails ==
  [][ (AboutToScan /\ Dispatch(Lx) = "identifier")
      => /\ position + 3 <= Len(source)
         /\ SubSeq(source, position + 1, position + 3) \in LegalPrefixes
         /\ tokens' = Append(tokens,
                             Token("IDENTIFIER", WordAt(source, position),
                                   line, column, NoMsg))
         /\ position' = WordEnd(source, position)
         /\ errors' = errors
         /\ error_count' = error_count
    ]_vars

\* the identifier-prefix scan has run for each of the three prefixes
C29_Witness ==
  /\ Returned
  /\ source = SrcFunc
  /\ Types(tokens) = <<"IDENTIFIER", "IDENTIFIER", "IDENTIFIER", "FUNC", "EOF">>
  /\ error_count = 0

\* the word is made of decimal digits only
DigitOnly(w) == \A i \in DOMAIN w : w[i] \in DecimalDigits

(***************************************************************************)
(* C30.  A scan step that starts at a digit-only word beginning with 071,  *)
(* 070 or 048 appends one IDENTIFIER token holding the word, never an      *)
(* INTEGER token; a scan step that starts at a digit-only numeral that     *)
(* begins with 0 without such a prefix (no fraction point follows the      *)
(* digits) appends one INTEGER token holding it; for 071Bayzid 0712025     *)
(* 072 0 the second token is IDENTIFIER and the third and fourth are       *)
(* INTEGER.                                                                *)
(***************************************************************************)
C30_DigitWordsByPrefix ==
  [][ /\ ( /\ AboutToScan
           /\ source[position + 1] = "0"
           /\ DigitOnly(WordAt(source, position))
           /\ \/ HasLegalPrefix(WordAt(source, position))
              \/ WordEnd(source, position) = Len(source)
              \/ source[WordEnd(source, position) + 1] # "." )
           => /\ tokens' = Append(tokens,
                             Token(IF HasLegalPrefix(WordAt(source, position))
                                   THEN "IDENTIFIER" ELSE "INTEGER",
                                   WordAt(source, position), line, column, NoMsg))
              /\ position' = WordEnd(source, position)
              /\ errors' = errors
              /\ error_count' = error_count
      /\ (pc' = "done" /\ calls' = 1 /\ source = SrcNameAndId)
           => Types(tokens') = <<"IDENTIFIER", "IDENTIFIER", "INTEGER", "INTEGER", "EOF">>
    ]_vars

\* the kind claimed for a one-character operator
ClaimedOneCharKind(c) ==
  CASE c = "+" -> "PLUS"
    [] c = "-" -> "MINUS"
    [] c = "*" -> "MULTIPLY"
    [] c = "/" -> "DIVIDE"
    [] c = "<" -> "LESS_THAN"
    [] c = ">" -> "GREATER_THAN"

\* the character after the one at the cursor is one of S
NextCharIn(S) == position + 1 < Len(source) /\ source[position + 2] \in S

\* the step consumes the character at the cursor alone and appends an
\* INVALID_SYMBOL token for it, which it also logs
OneInvalidSymbol ==
  /\ tokens' = Append(tokens,
                      Token("INVALID_SYMBOL", <<source[position + 1]>>, line, column,
                            <<"Invalid symbol: '", source[position + 1], "'">>))
  /\ errors' = Append(errors, tokens'[Len(tokens')])
  /\ error_count' = error_count + 1
  /\ position' = position + 1

\* the step consumes the character at the cursor alone and appends its
\* one-character operator token
OneCharOperator ==
  /\ tokens' = Append(tokens,
                      Token(ClaimedOneCharKind(source[position + 1]),
                            <<source[position + 1]>>, line, column, NoMsg))
  /\ errors' = errors
  /\ error_count' = error_count
  /\ position' = position + 1

(***************************************************************************)
(* C31.  As claimed: a scan step at a = or a ! that no = follows consumes  *)
(* that one character and appends an INVALID_SYMBOL token, which is        *)
(* logged; a scan step at + - * < > or at a / that neither / nor * follows *)
(* consumes that one character and appends its one-character operator      *)
(* token.                                                                  *)
(***************************************************************************)
C31_OneCharOperatorsAlways ==
  [][ /\ (AboutToScan /\ source[position + 1] \in {"=", "!"} /\ ~NextCharIn({"="}))
           => OneInvalidSymbol
      /\ ( /\ AboutToScan
           /\ \/ source[position + 1] \in {"+", "-", "*", "<", ">"}
              \/ source[position + 1] = "/" /\ ~NextCharIn({"/", "*"}) )
           => OneCharOperator
    ]_vars

(***************************************************************************)
(* C31, amended.  The same, with < and > emitted as LESS_THAN and          *)
(* GREATER_THAN when no = follows them: <= and >= are the two-character    *)
(* operators.                                                              *)
(***************************************************************************)
C31_OneCharOperatorsUnlessLonger ==
  [][ /\ (AboutToScan /\ source[position + 1] \in {"=", "!"} /\ ~NextCharIn({"="}))
           => OneInvalidSymbol
      /\ ( /\ AboutToScan
           /\ \/ source[position + 1] \in {"+", "-", "*"}
              \/ source[position + 1] \in {"<", ">"} /\ ~NextCharIn({"="})
              \/ source[position + 1] = "/" /\ ~NextCharIn({"/", "*"}) )
           => OneCharOperator
    ]_vars

\* a lone =, a lone ! and a lone < have been scanned
C31_Witness ==
  /\ Returned
  /\ source = <<"=", "!", "<">>
  /\ Types(tokens) = <<"INVALID_SYMBOL", "INVALID_SYMBOL", "LESS_THAN", "EOF">>
  /\ errors = <<tokens[1], tokens[2]>>
  /\ error_count = 2

\* the offset of the first character at or after offset o of src that is
\* not a space, a tab or a carriage return (the length of src when none)
SkipBlanks(src, o) ==
  CHOOSE q \in o..Len(src) :
     /\ q = Len(src) \/ src[q + 1] \notin {" ", "\t", "\r"}
     /\ \A i \in (o + 1)..q : src[i] \in {" ", "\t", "\r"}

\* from token i on, the lexemes of what tokenize returned are the text of
\* the source from offset o on, in order, with nothing but spaces, tabs and
\* carriage returns between them, and EOF, with an empty lexeme, is last
RECURSIVE LexemesCover(_, _)
LexemesCover(i, o) ==
  IF tokens[i].type = "EOF"
  THEN /\ i = Len(tokens)
       /\ tokens[i].value = <<>>
       /\ SkipBlanks(source, o) = Len(source)
  ELSE /\ tokens[i].value # <<>>
       /\ tokens[i].value[1] \notin {" ", "\t", "\r"}
       /\ ReadsAt(source, SkipBlanks(source, o), tokens[i].value)
       /\ LexemesCover(i + 1, SkipBlanks(source, o) + Len(tokens[i].value))

\* a block comment error, nested or unterminated, is among the tokens
BlockCommentError ==
  \E i \in DOMAIN tokens :
     tokens[i].error_msg \in {<<"Nested multi-line comments are not supported">>,
                              <<"Unterminated multi-line comment">>}

(***************************************************************************)
(* C32.  When tokenize has returned and no block comment error is among    *)
(* the tokens, the lexemes of the tokens, concatenated in order, are the   *)
(* source text without the spaces, tabs and carriage returns that stand    *)
(* between tokens: every lexeme is read in the source where the previous   *)
(* one ended, after whitespace only, and only whitespace is left after the *)
(* last one.                                                               *)
(***************************************************************************)
C32_LexemesAreTheSource ==
  (Returned /\ ~BlockCommentError) => LexemesCover(1, 0)

\* a source with strings, one of them cut by a newline, spaces inside and
\* outside strings and an invalid word has been tokenized
C32_Witness ==
  /\ Returned
  /\ source = SrcStrings
  /\ ~BlockCommentError
  /\ Len(tokens) = 6
  /\ error_count = 3

\* every digit of the text is an ASCII digit
AsciiNumeral(t) == \A i \in DOMAIN t : t[i] \in Digits => t[i] \in AsciiDigits

(***************************************************************************)
(* C33.  For numerals whose digits are ASCII digits the revalidation at    *)
(* the end of the number scan never fails: every INVALID_NUMBER token over *)
(* such digits comes from an exponent marker with no digit after it, so    *)
(* its lexeme ends with e, E, + or -, and a number scan step that consumes *)
(* a well-formed numeral of such digits logs nothing.                      *)
(***************************************************************************)
C33_RevalidationNeverFails ==
  [][ /\ \A i \in DOMAIN tokens' :
            (tokens'[i].type = "INVALID_NUMBER" /\ AsciiNumeral(tokens'[i].value))
              => /\ tokens'[i].value # <<>>
                 /\ tokens'[i].value[Len(tokens'[i].value)] \in {"e", "E", "+", "-"}
      /\ ( /\ AboutToScan
           /\ NumberStartsAt(source, position)
           /\ ~BadExponentAt(source, position)
           /\ AsciiNumeral(Consumed) )
           => error_count' = error_count
    ]_vars

\* the entries of the error log from entry j on are, in order, among the
\* tokens from token i on
RECURSIVE LogWithinTokens(_, _)
LogWithinTokens(j, i) ==
  IF j > Len(errors) THEN TRUE
  ELSE IF i > Len(tokens) THEN FALSE
  ELSE IF tokens[i] = errors[j] THEN LogWithinTokens(j + 1, i + 1)
  ELSE LogWithinTokens(j, i + 1)

(***************************************************************************)
(* C34.  When tokenize has returned, the entries of the error log are, in  *)
(* order, among the tokens of the output, each of them the very token      *)
(* emitted, of an error type and with the same (line, column), which is    *)
(* the position of the first character of its lexeme in the source; so for *)
(* an unrecognized symbol, reported after the cursor has passed it, and    *)
(* for a nested comment opener, reported at the inner opener.              *)
(***************************************************************************)
C34_LogEntriesAreTheEmittedTokens ==
  Returned =>
    /\ LogWithinTokens(1, 1)
    /\ \A j \in DOMAIN errors :
          /\ errors[j].type \in ErrorTypes
          /\ PointsAtLexeme(source, errors[j])

\* the log of SrcLateTokens: the symbol @ of (1,3), reported with the cursor
\* at (1,4); the outer opener of (2,1), reported at the inner opener of
\* (3,1); the unterminated comment of (3,1)
C34_Witness ==
  /\ Returned
  /\ source = SrcLateTokens
  /\ errors = <<tokens[2], tokens[4], tokens[5]>>
  /\ <<errors[1].line, errors[1].column>> = <<1, 3>>
  /\ <<errors[2].line, errors[2].column>> = <<2, 1>>
  /\ <<errors[3].line, errors[3].column>> = <<3, 1>>

(***************************************************************************)
(* C35.  In what tokenize returns on a fresh scanner every token before    *)
(* EOF has a non-empty lexeme, the EOF token has the empty lexeme, and the *)
(* tokens are at most one more than the characters of the source.          *)
(***************************************************************************)
C35_LexemesNonEmpty ==
  Returned =>
    /\ \A i \in 1..(Len(tokens) - 1) : tokens[i].value # <<>>
    /\ tokens[Len(tokens)].type = "EOF"
    /\ tokens[Len(tokens)].value = <<>>
    /\ Len(tokens) <= Len(source) + 1

\* every character of the source is a token: the bound is met
C35_Witness ==
  /\ Returned
  /\ source = <<"(", "@", "<">>
  /\ Len(tokens) = Len(source) + 1
  /\ tokens[4].value = <<>>

\* position a comes before position b, by line and then by column
Before(a, b) ==
  \/ a.line < b.line
  \/ a.line = b.line /\ a.column < b.column

(***************************************************************************)
(* C36.  In what tokenize returns on a fresh scanner the (line, column) of *)
(* each token comes strictly before that of the next token, the EOF token  *)
(* included: the tokens are in source order and no two of them share a     *)
(* position.                                                               *)
(***************************************************************************)
C36_TokenPositionsIncrease ==
  Returned =>
    /\ \A i \in 1..(Len(tokens) - 1) : Before(tokens[i], tokens[i + 1])
    /\ \A i, j \in DOMAIN tokens :
          i # j => <<tokens[i].line, tokens[i].column>> # <<tokens[j].line, tokens[j].column>>

\* tokens over four lines, the third of them a comment that ends a line
\* below the one it starts on
C36_Witness ==
  /\ Returned
  /\ source = SrcComments
  /\ [i \in DOMAIN tokens |-> <<tokens[i].line, tokens[i].column>>]
       = << <<1, 1>>, <<1, 5>>, <<2, 1>>, <<3, 8>>, <<4, 1>>, <<4, 2>> >>

\* a $ stands after the opening $ at offset p of src, before any newline
ClosedOnLine(src, p) ==
  \E q \in (p + 2)..LineEnd(src, p + 1) : src[q] = "$"

\* the index of the first $ after the opening $ at offset p of src
FirstDollar(src, p) ==
  CHOOSE q \in (p + 2)..Len(src) :
     src[q] = "$" /\ \A k \in (p + 2)..(q - 1) : src[k] # "$"

\* the lexeme of a STRING token: $, no $ and no newline, $
StringShape(v) ==
  /\ Len(v) >= 2
  /\ v[1] = "$"
  /\ v[Len(v)] = "$"
  /\ \A k \in 2..(Len(v) - 1) : v[k] \notin {"$", "\n"}

\* the lexeme of an UNTERMINATED_STRING token: $, no $ and no newline
UnterminatedShape(v) ==
  /\ Len(v) >= 1
  /\ v[1] = "$"
  /\ \A k \in 2..Len(v) : v[k] \notin {"$", "\n"}

(***************************************************************************)
(* C37.  The lexeme of every STRING token begins and ends with $, has at   *)
(* least two characters and holds no other $ and no newline; the lexeme of *)
(* every UNTERMINATED_STRING token begins with $ and holds no other $ and  *)
(* no newline; and a scan step that starts at a $ with another $ after it  *)
(* on the same line appends one STRING token that ends at the first such   *)
(* $, so that $$ is one STRING token.                                      *)
(***************************************************************************)
C37_StringLexemeShapes ==
  [][ /\ \A i \in DOMAIN tokens' :
            /\ tokens'[i].type = "STRING" => StringShape(tokens'[i].value)
            /\ tokens'[i].type = "UNTERMINATED_STRING"
                 => UnterminatedShape(tokens'[i].value)
      /\ ( /\ AboutToScan
           /\ source[position + 1] = "$"
           /\ ClosedOnLine(source, position) )
           => /\ tokens' = Append(tokens,
                             Token("STRING",
                                   SubSeq(source, position + 1,
                                          FirstDollar(source, position)),
                                   line, column, NoMsg))
              /\ position' = FirstDollar(source, position)
              /\ errors' = errors
    ]_vars

(***************************************************************************)
(* The cursor primitives called directly: a caller that holds a lexer      *)
(* calls advance, peek_char and current_char in any order.  result is the  *)
(* call last made, with its offset argument and the value it returned.     *)
(***************************************************************************)
\* the source texts of these calls
CursorSources == TextsUpTo({"a", "\n", NUL}, MaxLen)

\* the offset arguments of peek_char
PeekOffsets == (0 - MaxLen - 1)..(MaxLen + 1)

CursorInit ==
  /\ source \in CursorSources
  /\ position = NewLexer(source).position
  /\ line = NewLexer(source).line
  /\ column = NewLexer(source).column
  /\ errors = NewLexer(source).h.errors
  /\ error_count = NewLexer(source).h.error_count
  /\ tokens = <<>>
  /\ pc = "cursor"
  /\ calls = 0
  /\ iterations = 0
  /\ result = None
  /\ other = NoLexer

\* a call that returns value and leaves the lexer lx
CursorReturn(lx, method, offset, value) ==
  /\ pc = "cursor"
  /\ position' = lx.position
  /\ line' = lx.line
  /\ column' = lx.column
  /\ result' = [method |-> method, offset |-> offset, value |-> value]
  /\ UNCHANGED <<source, tokens, errors, error_count, pc, calls, iterations, other>>

AdvanceCall == CursorReturn(advance(Lx), "advance", 0, advanced_char(Lx))

PeekCharCall ==
  \E offset \in PeekOffsets :
     CursorReturn(Lx, "peek_char", offset, peek_char(Lx, offset))

CurrentCharCall == CursorReturn(Lx, "current_char", 0, current_char(Lx))

CursorNext ==
  \/ AdvanceCall
  \/ PeekCharCall
  \/ CurrentCharCall

CursorSpec == CursorInit /\ [][CursorNext]_vars

(***************************************************************************)
(* C38.  An advance call made with the cursor at the end of the input      *)
(* returns the sentinel and leaves offset, line and column as they were;   *)
(* a peek_char call, whatever its offset, and a current_char call leave    *)
(* offset, line and column as they were, and return the sentinel when the  *)
(* position they look at is at or past the end of the input.               *)
(***************************************************************************)
C38_PrimitivesAtEndOfInput ==
  [][ /\ (result'.method = "advance" /\ position >= Len(source))
           => /\ result'.value = NUL
              /\ <<position', line', column'>> = <<position, line, column>>
      /\ result'.method \in {"peek_char", "current_char"}
           => /\ <<position', line', column'>> = <<position, line, column>>
              /\ position + result'.offset >= Len(source) => result'.value = NUL
    ]_vars

\* advance was called at the end of a source of two lines
C38_Witness ==
  /\ pc = "cursor"
  /\ source = <<"a", "\n", "a">>
  /\ position = Len(source)
  /\ result = [method |-> "advance", offset |-> 0, value |-> NUL]
  /\ line = 2
  /\ column = 2
====
